---------------------------- MODULE Spec2Model ----------------------------
(***************************************************************************)
(* Timeline scheduler of the strudel REPL: the timeline model              *)
(* (useTimeline), the segment resolver (getActiveSegments), the code       *)
(* compositor (generateCombinedCode) and the playback clock                *)
(* (useTimelinePlayback) driven by the editor component (ReplEditor).      *)
(*                                                                         *)
(* Strings of the program (segment code, composed programs) are sequences  *)
(* of tokens: a token is a run of characters that the code never looks     *)
(* inside (" " and "\n" are white space; "silence" is the word silence).   *)
(* Times are integers.                                                     *)
(***************************************************************************)
EXTENDS Integers, Sequences, FiniteSets, TLC

VARIABLES
    \* useTimeline state (src/unnamed/part_000:48-52)
    tracks, selectedSegmentId, playheadPosition, duration, isPlaying,
    \* number of ids generateId has produced so far
    idCount,
    \* the song collection and the current song (src/unnamed/part_000:26-44)
    songs, currentSongId,
    \* the key-value store (window.localStorage) and whether the component
    \* tree is mounted: an exception in a render or in an effect unmounts it
    localStorage, mounted,
    \* useTimelinePlayback / ReplEditor state (src/unnamed/part_003, part_004)
    replStarted, lastActiveCodeRef, animationFrameRef, startTimeRef,
    isManualEditing, selectedSegment, lastEditorCodeRef, manualEditTimeoutRef,
    \* the host: pending animation frames, audio clock, editor (sink) content
    frames, audioTime, editorCode,
    \* the editor: whether editorRef.current (with its repl) is set, and the
    \* handler chain installed as editorRef.current.repl.onUpdateState
    editorRef, onUpdateState,
    \* the Segment component under the pointer (Segment.jsx:17-19): its
    \* isDragging and isResizing state and its dragStartRef; `pressed` is
    \* <<>> or <<the trackId and segment.id props of that component>>
    isDragging, isResizing, dragStartRef, pressed,
    \* history read by the properties: the last step taken, and what has
    \* happened since the REPL was last started or stopped
    ev, run

songVars == <<songs, currentSongId, localStorage, mounted>>
timelineVars == <<tracks, selectedSegmentId, playheadPosition, duration, isPlaying, idCount,
                  songVars>>
segmentVars == <<isDragging, isResizing, dragStartRef, pressed>>
clockVars == <<replStarted, lastActiveCodeRef, animationFrameRef, startTimeRef,
               isManualEditing, selectedSegment, lastEditorCodeRef,
               manualEditTimeoutRef, frames, audioTime, editorCode,
               editorRef, onUpdateState, segmentVars, ev, run>>
vars == <<timelineVars, clockVars>>

---------------------------------------------------------------------------
(* Bounds of the model *)

\* ids generateId may hand out in one run (tracks and segments together)
MaxIds == 4
\* largest value of the audio clock
MaxAudioTime == 3
\* songs created in one run of the song collection
MaxSongs == 1
\* latest end, in seconds, a pointer gesture may give a segment
MaxPointerTime == 5

---------------------------------------------------------------------------
(* Values *)

\* JavaScript null (selectedSegmentId, selectedSegment) and '' / [] / unset ref
Null == "null"
EmptyString == <<>>
SILENCE == <<"silence">>
Whitespace == {" ", "\n"}

TRACK_COLORS == <<"#ff6b6b", "#4ecdc4", "#45b7d1", "#f9ca24",
                  "#6c5ce7", "#fd79a8", "#00b894", "#fdcb6e">>

\* the n-th id produced by generateId: unique strings
generateId(n) == "id" \o ToString(n)

\* { ...base, ...updates }
Spread(base, updates) ==
    [k \in (DOMAIN base) \cup (DOMAIN updates) |->
        IF k \in DOMAIN updates THEN updates[k] ELSE base[k]]

Range(s) == {s[i] : i \in DOMAIN s}

\* all segments of a track list, in track order then stored order
RECURSIVE AllSegments(_)
AllSegments(trks) ==
    IF trks = <<>> THEN <<>> ELSE Head(trks).segments \o AllSegments(Tail(trks))

---------------------------------------------------------------------------
(* Segment resolver *)

\* ActiveOfTrack with the end of the interval included
ActiveOfTrackClosed(track, time) ==
    LET hit(segment) == /\ time >= segment.startTime
                        /\ time <= segment.startTime + segment.duration
        annotate(segment) ==
            Spread(segment, [trackId |-> track.id, trackColor |-> track.color])
        hits == SelectSeq(track.segments, hit)
    IN  [k \in DOMAIN hits |-> annotate(hits[k])]

\* ActiveOfTrack that keeps only the first segment containing `time`
ActiveOfTrackFirst(track, time) ==
    LET hit(segment) == /\ time >= segment.startTime
                        /\ time < segment.startTime + segment.duration
        annotate(segment) ==
            Spread(segment, [trackId |-> track.id, trackColor |-> track.color])
        hits == SelectSeq(track.segments, hit)
    IN  IF hits = <<>> THEN <<>> ELSE <<annotate(hits[1])>>

\* segments of one surviving track that contain `time`, annotated
ActiveOfTrack(track, time) ==
    LET hit(segment) == /\ time >= segment.startTime
                        /\ time < segment.startTime + segment.duration
        annotate(segment) ==
            Spread(segment, [trackId |-> track.id, trackColor |-> track.color])
        hits == SelectSeq(track.segments, hit)
    IN  [k \in DOMAIN hits |-> annotate(hits[k])]

\* ActiveFrom without the mute test
RECURSIVE ActiveFromNoMute(_, _, _)
ActiveFromNoMute(all, rest, time) ==
    IF rest = <<>> THEN <<>>
    ELSE LET track == Head(rest)
             hasSolo == \E i \in DOMAIN all : all[i].solo
             mine == IF hasSolo /\ ~track.solo THEN <<>>
                     ELSE ActiveOfTrack(track, time)
         IN  mine \o ActiveFromNoMute(all, Tail(rest), time)

\* ActiveFrom without the solo test
RECURSIVE ActiveFromNoSolo(_, _, _)
ActiveFromNoSolo(all, rest, time) ==
    IF rest = <<>> THEN <<>>
    ELSE LET track == Head(rest)
             mine == IF track.muted THEN <<>> ELSE ActiveOfTrack(track, time)
         IN  mine \o ActiveFromNoSolo(all, Tail(rest), time)

\* ActiveFrom that counts as solo only the solo tracks that are not muted
RECURSIVE ActiveFromSoloAudible(_, _, _)
ActiveFromSoloAudible(all, rest, time) ==
    IF rest = <<>> THEN <<>>
    ELSE LET track == Head(rest)
             hasSolo == \E i \in DOMAIN all : all[i].solo /\ ~all[i].muted
             mine == IF track.muted THEN <<>>
                     ELSE IF hasSolo /\ ~track.solo THEN <<>>
                     ELSE ActiveOfTrack(track, time)
         IN  mine \o ActiveFromSoloAudible(all, Tail(rest), time)

RECURSIVE ActiveFrom(_, _, _)
ActiveFrom(all, rest, time) ==
    IF rest = <<>> THEN <<>>
    ELSE LET track == Head(rest)
             hasSolo == \E i \in DOMAIN all : all[i].solo
             mine == IF track.muted THEN <<>>
                     ELSE IF hasSolo /\ ~track.solo THEN <<>>
                     ELSE ActiveOfTrack(track, time)
         IN  mine \o ActiveFrom(all, Tail(rest), time)

getActiveSegments(trks, time) == ActiveFrom(trks, trks, time)

---------------------------------------------------------------------------
(* Code compositor *)

RECURSIVE TrimStart(_)
TrimStart(s) ==
    IF s # <<>> /\ Head(s) \in Whitespace THEN TrimStart(Tail(s)) ELSE s

RECURSIVE TrimEnd(_)
TrimEnd(s) ==
    IF s # <<>> /\ s[Len(s)] \in Whitespace
    THEN TrimEnd(SubSeq(s, 1, Len(s) - 1)) ELSE s

\* String.prototype.trim
trim(s) == TrimEnd(TrimStart(s))

wrapWithAnalyze(segment) ==
    LET code == trim(segment.code)
    IN  IF code = EmptyString \/ code = SILENCE THEN code
        ELSE <<"(">> \o code \o <<").analyze(\"", segment.id, "\")">>

\* Join that puts the list together back to front
RECURSIVE JoinReversed(_, _)
JoinReversed(list, sep) ==
    IF Len(list) = 1 THEN Head(list)
    ELSE JoinReversed(Tail(list), sep) \o sep \o Head(list)

\* array.join(sep) of a non-empty list of strings
RECURSIVE Join(_, _)
Join(list, sep) ==
    IF Len(list) = 1 THEN Head(list)
    ELSE Head(list) \o sep \o Join(Tail(list), sep)

\* generateCombinedCode after its call of getActiveSegments
compose(activeSegments) ==
    IF Len(activeSegments) = 0 THEN SILENCE
    ELSE IF Len(activeSegments) = 1 THEN wrapWithAnalyze(activeSegments[1])
    ELSE LET usable(code) == code # EmptyString /\ code # SILENCE
             wrapped == [k \in DOMAIN activeSegments |-> wrapWithAnalyze(activeSegments[k])]
             segmentCodes == SelectSeq(wrapped, usable)
         IN  IF Len(segmentCodes) = 0 THEN SILENCE
             ELSE IF Len(segmentCodes) = 1 THEN segmentCodes[1]
             ELSE <<"stack(\n  ">> \o Join(segmentCodes, <<",\n  ">>) \o <<"\n)">>

generateCombinedCode(trks, time) == compose(getActiveSegments(trks, time))

\* getSelectedSegment: <<>> for null, else <<segment with its track's id and name>>
getSelectedSegment(trks, sel) ==
    IF sel = Null THEN <<>>
    ELSE LET owners == {i \in DOMAIN trks :
                           \E j \in DOMAIN trks[i].segments : trks[i].segments[j].id = sel}
         IN  IF owners = {} THEN <<>>
             ELSE LET i == CHOOSE i \in owners : \A k \in owners : i <= k
                      t == trks[i]
                      j == CHOOSE j \in DOMAIN t.segments :
                               /\ t.segments[j].id = sel
                               /\ \A k \in DOMAIN t.segments :
                                      t.segments[k].id = sel => j <= k
                  IN  <<Spread(t.segments[j], [trackId |-> t.id, trackName |-> t.name])>>

---------------------------------------------------------------------------
(* Timeline model: what each operation of useTimeline hands to its setters. *)
(* `prev` is the state a functional updater receives; `closure...` is the   *)
(* value the callback captured at the render that created it.               *)

\* Math.ceil(x / 8) * 8
RoundUpTo8(x) == ((x + 7) \div 8) * 8

newTrack(closureTracks, id, name) ==
    [id |-> id,
     name |-> IF name # "" THEN name ELSE "Track " \o ToString(Len(closureTracks) + 1),
     color |-> TRACK_COLORS[(Len(closureTracks) % Len(TRACK_COLORS)) + 1],
     segments |-> <<>>,
     muted |-> FALSE,
     solo |-> FALSE]

addTrackTracks(prev, closureTracks, id, name) ==
    Append(prev, newTrack(closureTracks, id, name))

removeTrackTracks(prev, trackId) ==
    LET keep(track) == track.id # trackId IN SelectSeq(prev, keep)

\* removeTrackSelection that keeps the selection
removeTrackSelectionKept(prevSel, closureTracks, trackId) == prevSel

\* the selection updater of removeTrack: null when the first track with
\* this id, among the tracks of the render, holds the selected segment
removeTrackSelection(prevSel, closureTracks, trackId) ==
    IF \E i \in DOMAIN closureTracks :
           /\ closureTracks[i].id = trackId
           /\ \A k \in 1..(i - 1) : closureTracks[k].id # trackId
           /\ \E j \in DOMAIN closureTracks[i].segments :
                  closureTracks[i].segments[j].id = prevSel
    THEN Null ELSE prevSel

updateTrackTracks(prev, trackId, updates) ==
    LET f(track) == IF track.id = trackId THEN Spread(track, updates) ELSE track
    IN  [k \in DOMAIN prev |-> f(prev[k])]

\* value || dflt for a key of segmentData that may be absent
OrDefault(data, key, falsy, dflt) ==
    IF key \in DOMAIN data /\ data[key] # falsy THEN data[key] ELSE dflt

\* a segment that never got a repeat key reads as repeat = undefined, which
\* every reader treats as false
newSegment(id, segmentData) ==
    Spread([id |-> id,
            code |-> OrDefault(segmentData, "code", EmptyString, EmptyString),
            startTime |-> OrDefault(segmentData, "startTime", 0, 0),
            duration |-> OrDefault(segmentData, "duration", 0, 8),
            name |-> OrDefault(segmentData, "name", "", "Untitled"),
            repeat |-> FALSE],
           segmentData)

addSegmentTracks(prev, trackId, segment) ==
    LET f(track) == IF track.id = trackId
                    THEN [track EXCEPT !.segments = Append(@, segment)]
                    ELSE track
    IN  [k \in DOMAIN prev |-> f(prev[k])]

\* addSegmentDuration that sets the end itself, not rounded
addSegmentDurationExact(prevDuration, closureDuration, segment) ==
    LET segmentEnd == segment.startTime + segment.duration
    IN  IF segmentEnd > closureDuration THEN segmentEnd ELSE prevDuration

\* the duration addSegment leaves behind: setDuration is called only when
\* the segment ends beyond the captured duration
addSegmentDuration(prevDuration, closureDuration, segment) ==
    LET segmentEnd == segment.startTime + segment.duration
    IN  IF segmentEnd > closureDuration THEN RoundUpTo8(segmentEnd) ELSE prevDuration

removeSegmentTracks(prev, trackId, segmentId) ==
    LET keep(s) == s.id # segmentId
        f(track) == IF track.id = trackId
                    THEN [track EXCEPT !.segments = SelectSeq(@, keep)]
                    ELSE track
    IN  [k \in DOMAIN prev |-> f(prev[k])]

removeSegmentSelection(prevSel, closureSel, segmentId) ==
    IF closureSel = segmentId THEN Null ELSE prevSel

\* updateSegment that looks for the segment in every track
updateSegmentTracksAnyTrack(prev, trackId, segmentId, updates) ==
    LET g(segment) == IF segment.id = segmentId THEN Spread(segment, updates) ELSE segment
        f(track) == [track EXCEPT !.segments = [k \in DOMAIN @ |-> g(@[k])]]
    IN  [k \in DOMAIN prev |-> f(prev[k])]

updateSegmentTracks(prev, trackId, segmentId, updates) ==
    LET g(segment) == IF segment.id = segmentId THEN Spread(segment, updates) ELSE segment
        f(track) == IF track.id = trackId
                    THEN [track EXCEPT !.segments = [k \in DOMAIN @ |-> g(@[k])]]
                    ELSE track
    IN  [k \in DOMAIN prev |-> f(prev[k])]

\* updateSegmentDuration that takes the end of the segment from the update
\* alone, a field left out counting as 0
updateSegmentDurationPartial(prevDuration, closureTracks, closureDuration, trackId, segmentId, updates) ==
    IF "startTime" \in DOMAIN updates \/ "duration" \in DOMAIN updates
    THEN LET newStartTime == IF "startTime" \in DOMAIN updates THEN updates.startTime ELSE 0
             newDuration == IF "duration" \in DOMAIN updates THEN updates.duration ELSE 0
             segmentEnd == newStartTime + newDuration
         IN  IF segmentEnd > closureDuration THEN RoundUpTo8(segmentEnd) ELSE prevDuration
    ELSE prevDuration

updateSegmentDuration(prevDuration, closureTracks, closureDuration, trackId, segmentId, updates) ==
    IF "startTime" \in DOMAIN updates \/ "duration" \in DOMAIN updates
    THEN LET ti == {i \in DOMAIN closureTracks : closureTracks[i].id = trackId}
         IN  IF ti = {} THEN prevDuration
             ELSE LET track == closureTracks[CHOOSE i \in ti : \A k \in ti : i <= k]
                      si == {j \in DOMAIN track.segments : track.segments[j].id = segmentId}
                  IN  IF si = {} THEN prevDuration
                      ELSE LET segment == track.segments[CHOOSE j \in si : \A k \in si : j <= k]
                               newStartTime == IF "startTime" \in DOMAIN updates
                                               THEN updates.startTime ELSE segment.startTime
                               newDuration == IF "duration" \in DOMAIN updates
                                              THEN updates.duration ELSE segment.duration
                               segmentEnd == newStartTime + newDuration
                           IN  IF segmentEnd > closureDuration
                               THEN RoundUpTo8(segmentEnd) ELSE prevDuration
    ELSE prevDuration

---------------------------------------------------------------------------
(* Song collection: a function from song id to song.  createdAt and        *)
(* updatedAt (Date.now()) are left out: no operation reads them but         *)
(* getSongsList.                                                            *)

DEFAULT == "default"

\* saveCurrentSong that writes the session into every song
saveCurrentSongAll(prev, id, trks, dur) ==
    [k \in DOMAIN prev \cup {id} |->
        Spread(IF k \in DOMAIN prev THEN prev[k] ELSE <<>>,
               [tracks |-> trks, duration |-> dur])]

\* the updater of the save effect: { ...prev, [id]: { ...prev[id], tracks,
\* duration } }; spreading a missing prev[id] adds nothing
saveCurrentSong(prev, id, trks, dur) ==
    [k \in DOMAIN prev \cup {id} |->
        IF k = id
        THEN Spread(IF id \in DOMAIN prev THEN prev[id] ELSE <<>>,
                    [tracks |-> trks, duration |-> dur])
        ELSE prev[k]]

newSong(closureSongs, id, name) ==
    [id |-> id,
     name |-> IF name # "" THEN name
              ELSE "Song " \o ToString(Cardinality(DOMAIN closureSongs) + 1),
     tracks |-> <<>>,
     duration |-> 32]

\* createNewSongSongs that keeps the new song alone
createNewSongSongsOnly(prev, song) ==
    [k \in {song.id} |-> song]

\* the setSongs updater of createNewSong
createNewSongSongs(prev, song) ==
    [k \in DOMAIN prev \cup {song.id} |-> IF k = song.id THEN song ELSE prev[k]]

renameSongSongs(prev, songId, newName) ==
    [k \in DOMAIN prev \cup {songId} |->
        IF k = songId
        THEN Spread(IF songId \in DOMAIN prev THEN prev[songId] ELSE <<>>,
                    [name |-> newName])
        ELSE prev[k]]

\* isReservedSong that reserves no id
isReservedSongNever(songId) == FALSE

\* the id deleteSong returns on
isReservedSong(songId) == songId = DEFAULT

\* the setSongs updater of deleteSong
deleteSongSongs(prev, songId) ==
    [k \in DOMAIN prev \ {songId} |-> prev[k]]

---------------------------------------------------------------------------
(* The key-value store.  A stored value is <<>> (getItem returns null) or   *)
(* <<text>>.  JSON text is modelled by the value it denotes: the songs hold *)
(* strings, numbers, booleans, arrays and plain objects only, which          *)
(* JSON.stringify and JSON.parse take there and back unchanged; text that    *)
(* is no JSON denotes nothing.                                               *)

JSONstringify(value) == [json |-> value]

\* JSON.parse: the value, or the SyntaxError it throws
JSONparse(text) ==
    IF "json" \in DOMAIN text THEN [throws |-> FALSE, value |-> text.json]
    ELSE [throws |-> TRUE]

\* setItems that writes the current-song key only
setItemsCurrentOnly(store, sngs, songId) ==
    [store EXCEPT !.CURRENT_SONG = <<songId>>]

\* the two persistence effects on a store that takes the writes
setItems(store, sngs, songId) ==
    [store EXCEPT !.SONGS_LIST = <<JSONstringify(sngs)>>, !.CURRENT_SONG = <<songId>>]

\* the collection useState starts from when nothing is stored
DefaultSongs == [k \in {DEFAULT} |->
                    [id |-> DEFAULT, name |-> "Untitled Song", tracks |-> <<>>,
                     duration |-> 32]]

\* the first render of useTimeline on a store: the state it starts from, or
\* throws = TRUE when an initialiser throws (JSON.parse on text that is no
\* JSON; currentSong.tracks when neither the stored current id nor
\* 'default' is in the parsed collection)
loadState(store) ==
    LET current == IF store.CURRENT_SONG # <<>> THEN store.CURRENT_SONG[1] ELSE DEFAULT
        parsed == IF store.SONGS_LIST = <<>> THEN [throws |-> FALSE, value |-> DefaultSongs]
                  ELSE JSONparse(store.SONGS_LIST[1])
    IN  IF parsed.throws THEN [throws |-> TRUE]
        ELSE LET sngs == parsed.value
             IN  IF current \in DOMAIN sngs
                 THEN [throws |-> FALSE, songs |-> sngs, currentSongId |-> current,
                       currentSong |-> sngs[current]]
                 ELSE IF DEFAULT \in DOMAIN sngs
                 THEN [throws |-> FALSE, songs |-> sngs, currentSongId |-> current,
                       currentSong |-> sngs[DEFAULT]]
                 ELSE [throws |-> TRUE]

---------------------------------------------------------------------------
(* Inputs of the timeline operations *)

\* segment code: empty, white space only, silence and a fragment, with
\* white space around them
Codes == { <<" ", "\n">>,
           <<" ", "silence">>,
           <<" ", "a", " ", "b", "\n">> }

\* segmentData bags of the resolver runs: placement varies, code is left out
PlacedInputs ==
    {[startTime |-> s, duration |-> d] : s \in {0, 2}, d \in {2, 3}}
    \cup {[code |-> EmptyString]}
PlacedUpdates ==
    {[startTime |-> s] : s \in {0, 2}} \cup {[duration |-> d] : d \in {2, 3}}

\* segmentData bags of the compositor runs: code varies
CodedInputs ==
    {[code |-> c] : c \in Codes}
    \cup {[code |-> c, startTime |-> 2, duration |-> 2] : c \in Codes}
    \cup {[name |-> "intro"]}
CodedUpdates == {[code |-> c] : c \in Codes \cup {EmptyString}}

\* segmentData bags of the watermark runs: ends below, at and beyond the
\* duration and the next multiples of 8 (33, 40, 41, 48), and a bag with a
\* negative start and no length
WatermarkInputs ==
    {[startTime |-> st, duration |-> 3] : st \in {30, 38}}
    \cup {[startTime |-> -1, duration |-> 0]}
WatermarkUpdates ==
    {[startTime |-> 38]} \cup {[duration |-> d] : d \in {0, 10}}
    \cup {[name |-> "intro"]}

MuteSoloUpdates == {[muted |-> b] : b \in BOOLEAN} \cup {[solo |-> b] : b \in BOOLEAN}
MuteUpdates == {[muted |-> b] : b \in BOOLEAN}

TrackIds == {tracks[i].id : i \in DOMAIN tracks}
SegmentIds == {s.id : s \in Range(AllSegments(tracks))}

---------------------------------------------------------------------------
(* Timeline operations, each followed by the render that commits it *)

\* the persistence effects of the render after songs or currentSongId
\* changed: localStorage.setItem of both keys; a setItem that throws (the
\* store takes no more) is an exception in an effect
PersistEffect ==
    /\ localStorage' = IF localStorage.writable
                       THEN setItems(localStorage, songs', currentSongId')
                       ELSE localStorage
    /\ mounted' = (mounted /\ localStorage.writable)

\* the save effect of the render after a timeline operation: the tracks (a
\* new array) and the duration go into the current song
SaveEffect ==
    /\ currentSongId' = currentSongId
    /\ songs' = saveCurrentSong(songs, currentSongId, tracks', duration')
    /\ PersistEffect

addTrack(name) ==
    /\ idCount < MaxIds
    /\ idCount' = idCount + 1
    /\ tracks' = addTrackTracks(tracks, tracks, generateId(idCount + 1), name)
    /\ UNCHANGED <<selectedSegmentId, playheadPosition, duration, isPlaying>>
    /\ SaveEffect
    /\ UNCHANGED clockVars

removeTrack(trackId) ==
    /\ tracks' = removeTrackTracks(tracks, trackId)
    /\ selectedSegmentId' = removeTrackSelection(selectedSegmentId, tracks, trackId)
    /\ UNCHANGED <<playheadPosition, duration, isPlaying, idCount>>
    /\ SaveEffect
    /\ UNCHANGED clockVars

updateTrack(trackId, updates) ==
    /\ tracks' = updateTrackTracks(tracks, trackId, updates)
    /\ UNCHANGED <<selectedSegmentId, playheadPosition, duration, isPlaying, idCount>>
    /\ SaveEffect
    /\ UNCHANGED clockVars

addSegment(trackId, segmentData) ==
    /\ idCount < MaxIds
    /\ idCount' = idCount + 1
    /\ LET segment == newSegment(generateId(idCount + 1), segmentData)
       IN  /\ tracks' = addSegmentTracks(tracks, trackId, segment)
           /\ duration' = addSegmentDuration(duration, duration, segment)
    /\ UNCHANGED <<selectedSegmentId, playheadPosition, isPlaying>>
    /\ SaveEffect
    /\ UNCHANGED clockVars

removeSegment(trackId, segmentId) ==
    /\ tracks' = removeSegmentTracks(tracks, trackId, segmentId)
    /\ selectedSegmentId' = removeSegmentSelection(selectedSegmentId, selectedSegmentId, segmentId)
    /\ UNCHANGED <<playheadPosition, duration, isPlaying, idCount>>
    /\ SaveEffect
    /\ UNCHANGED clockVars

updateSegment(trackId, segmentId, updates) ==
    /\ tracks' = updateSegmentTracks(tracks, trackId, segmentId, updates)
    /\ duration' = updateSegmentDuration(duration, tracks, duration, trackId, segmentId, updates)
    /\ UNCHANGED <<selectedSegmentId, playheadPosition, isPlaying, idCount>>
    /\ SaveEffect
    /\ UNCHANGED clockVars

---------------------------------------------------------------------------
(* Playback clock (useTimelinePlayback) and the editor component around it *)
(*                                                                          *)
(* A step is one handler or callback together with the render it causes    *)
(* and the effects of that render.  updatePlayback is created again when    *)
(* replStarted, the tracks, the selection or isManualEditing change (its    *)
(* useCallback dependencies); the start/stop effect depends on it and runs  *)
(* again each time.  A pending frame carries the callback as captured.      *)
(* The functional updaters of the timeline always build a new array, so a   *)
(* timeline operation changes the identity of tracks even when no value     *)
(* changes.  Change events of the editor carry typed code (TypedCodes).     *)

\* timeline.tracks?.some(track => track.segments?.length > 0); the ref
\* hasSegmentsRef is assigned this at every render, so a tick reads the
\* value of the tracks rendered last
hasSegments(trks) == \E i \in DOMAIN trks : Len(trks[i].segments) > 0

\* what updatePlayback captures at the render that (re)creates it
Closure(started, trks, sel, manual) ==
    [replStarted |-> started, tracks |-> trks,
     selectedSegmentId |-> sel, isManualEditing |-> manual]

\* the host's frame queue: requestAnimationFrame hands out an id no pending
\* frame has, cancelAnimationFrame drops the frame with that id
FreshFrameId(frs) ==
    CHOOSE n \in 1..(Cardinality(frs) + 1) :
        /\ \A f \in frs : f.id # n
        /\ \A m \in 1..(n - 1) : \E f \in frs : f.id = m

cancelAnimationFrame(frs, id) == {f \in frs : f.id # id}

\* cancelPending that cancels nothing
cancelNothing(frs, ref) == frs

\* if (animationFrameRef.current) cancelAnimationFrame(animationFrameRef.current)
cancelPending(frs, ref) == IF ref # 0 THEN cancelAnimationFrame(frs, ref) ELSE frs

\* a % n of JavaScript: the sign of the dividend
JsRem(a, n) ==
    LET m == IF n < 0 THEN -n ELSE n
    IN  IF a >= 0 THEN a % m ELSE -((-a) % m)

\* timelinePositionOf that leaves a negative remainder as it is
timelinePositionNoWrap(raw, sel) ==
    IF sel # <<>> /\ sel[1].repeat
    THEN sel[1].startTime + JsRem(raw - sel[1].startTime, sel[1].duration)
    ELSE raw

\* the position a tick publishes: the raw position, or its image inside the
\* selected segment when that segment repeats
timelinePositionOf(raw, sel) ==
    IF sel # <<>> /\ sel[1].repeat
    THEN LET segmentDuration == sel[1].duration
             segmentStart == sel[1].startTime
             relativePosition == JsRem(raw - segmentStart, segmentDuration)
         IN  segmentStart + (IF relativePosition >= 0 THEN relativePosition
                             ELSE segmentDuration + relativePosition)
    ELSE raw

\* controlsEditor that ignores a manual edit in progress
controlsEditorAlways(segmentsPresent, manual) == segmentsPresent

\* hasSegmentsRef.current && !isManualEditing: the tick renders and may push
controlsEditor(segmentsPresent, manual) == segmentsPresent /\ ~manual

\* rememberPushed that keeps the old value
forgetPushed(last, activeCode) == last

\* the value of lastActiveCodeRef after a tick that pushes activeCode
rememberPushed(last, activeCode) == activeCode

NewRun == [epoch |-> <<>>, lastPushed |-> <<>>, rendered |-> FALSE]

\* PlaybackEffect whose previous run left no cleanup behind
PlaybackEffectNoCleanup(cb, position) ==
    IF cb.replStarted
    THEN /\ isPlaying' = TRUE
         /\ startTimeRef' = <<>>
         /\ frames' = frames \cup {[id |-> FreshFrameId(frames), cb |-> cb]}
         /\ animationFrameRef' = FreshFrameId(frames)
         /\ playheadPosition' = position
         /\ UNCHANGED lastActiveCodeRef
    ELSE /\ isPlaying' = FALSE
         /\ frames' = cancelPending(frames, animationFrameRef)
         /\ animationFrameRef' = 0
         /\ playheadPosition' = 0
         /\ startTimeRef' = <<>>
         /\ lastActiveCodeRef' = EmptyString

\* The start/stop effect, run because replStarted or updatePlayback changed:
\* the previous run's cleanup, then the body.  `position` is the playhead
\* the handler before the render left.
PlaybackEffect(cb, position) ==
    LET cleaned == cancelPending(frames, animationFrameRef)
    IN  IF cb.replStarted
        THEN /\ isPlaying' = TRUE
             /\ startTimeRef' = <<>>
             /\ frames' = cleaned \cup {[id |-> FreshFrameId(cleaned), cb |-> cb]}
             /\ animationFrameRef' = FreshFrameId(cleaned)
             /\ playheadPosition' = position
             /\ UNCHANGED lastActiveCodeRef
        ELSE /\ isPlaying' = FALSE
             /\ frames' = cancelPending(cleaned, animationFrameRef)
             /\ animationFrameRef' = 0
             /\ playheadPosition' = 0
             /\ startTimeRef' = <<>>
             /\ lastActiveCodeRef' = EmptyString

\* TimelinePanel's selection effect, run because selectedSegmentId or
\* getSelectedSegment changed: onSegmentSelect(getSelectedSegment()), that
\* is handleSegmentSelect of ReplEditor
\* `surface` is what the editor shows when the effect runs
handleSegmentSelect(segment, surface) ==
    /\ selectedSegment' = segment
    /\ lastEditorCodeRef' = IF segment # <<>> THEN segment[1].code ELSE EmptyString
    /\ editorCode' = IF segment # <<>> /\ editorRef THEN segment[1].code ELSE surface

\* ReplEditor's listener effect.  Its dependency `timeline` is a new object
\* at every render, so every render of ReplEditor runs it: the cleanup of the
\* previous run (there is one when that run found the editor) clears the
\* quiet timer, then the body, when the editor is there, installs a
\* handleCodeChange that captures the selectedSegment of this render and
\* wraps the handler installed before.
\* onUpdateState is <<>> while no handleCodeChange is installed, else
\* <<the selectedSegment captured by the innermost handleCodeChange>>: a
\* handler calls the one it wraps before its own test, every handler ends
\* with lastEditorCodeRef.current = currentCode, so the test
\* currentCode !== lastEditorCodeRef.current of every handler but the
\* innermost is false and the chain acts as its innermost handler.
ListenerEffect(renderedSelection) ==
    /\ manualEditTimeoutRef' = IF onUpdateState # <<>> THEN FALSE ELSE manualEditTimeoutRef
    /\ onUpdateState' = IF editorRef /\ onUpdateState = <<>>
                        THEN <<renderedSelection>> ELSE onUpdateState

\* the render after a change of the tracks or of the selection: the panel's
\* selection effect sets selectedSegment for the next render, the listener
\* effect of this render still sees the selectedSegment rendered
RenderTimeline(trks, sel, manual, surface, position) ==
    /\ PlaybackEffect(Closure(replStarted, trks, sel, manual), position)
    /\ handleSegmentSelect(getSelectedSegment(trks, sel), surface)
    /\ ListenerEffect(selectedSegment)

\* the REPL reports started / stopped (the `started` prop)
StartSignal ==
    /\ replStarted' = TRUE
    /\ IF replStarted
       THEN UNCHANGED <<isPlaying, startTimeRef, frames, animationFrameRef,
                        playheadPosition, lastActiveCodeRef, run,
                        manualEditTimeoutRef, onUpdateState>>
       ELSE /\ PlaybackEffect(Closure(TRUE, tracks, selectedSegmentId, isManualEditing),
                               playheadPosition)
            /\ run' = NewRun
            /\ ListenerEffect(selectedSegment)
    /\ ev' = [kind |-> "start", wasStarted |-> replStarted]
    /\ UNCHANGED <<tracks, selectedSegmentId, duration, idCount, songVars,
                   isManualEditing, selectedSegment, lastEditorCodeRef, audioTime,
                   editorCode, editorRef, segmentVars>>

StopSignal ==
    /\ replStarted' = FALSE
    /\ IF ~replStarted
       THEN UNCHANGED <<isPlaying, startTimeRef, frames, animationFrameRef,
                        playheadPosition, lastActiveCodeRef, run,
                        manualEditTimeoutRef, onUpdateState>>
       ELSE /\ PlaybackEffect(Closure(FALSE, tracks, selectedSegmentId, isManualEditing),
                               playheadPosition)
            /\ run' = NewRun
            /\ ListenerEffect(selectedSegment)
    /\ ev' = [kind |-> "stop", cancelled |-> (frames # {})]
    /\ UNCHANGED <<tracks, selectedSegmentId, duration, idCount, songVars,
                   isManualEditing, selectedSegment, lastEditorCodeRef, audioTime,
                   editorCode, editorRef, segmentVars>>

\* the audio hardware clock moves on
AdvanceAudio ==
    /\ audioTime < MaxAudioTime
    /\ audioTime' = audioTime + 1
    /\ ev' = [kind |-> "clock"]
    /\ UNCHANGED timelineVars
    /\ UNCHANGED <<replStarted, lastActiveCodeRef, animationFrameRef, startTimeRef,
                   isManualEditing, selectedSegment, lastEditorCodeRef,
                   manualEditTimeoutRef, frames, editorCode, editorRef, segmentVars,
                   onUpdateState, run>>

\* the host runs a pending frame: updatePlayback as captured in f.cb; the
\* sink may accept the push or throw from setCode or from evaluate
updatePlayback(f, sink) ==
    LET cb == f.cb
        rest == frames \ {f}
        currentTime == audioTime
        epoch == IF startTimeRef = <<>> THEN currentTime ELSE startTimeRef[1]
        sel == getSelectedSegment(cb.tracks, cb.selectedSegmentId)
        timelinePosition == timelinePositionOf(currentTime - epoch, sel)
        rendered == controlsEditor(hasSegments(tracks), cb.isManualEditing)
        activeCode == generateCombinedCode(cb.tracks, timelinePosition)
        pushed == rendered /\ activeCode # lastActiveCodeRef
    IN  IF ~cb.replStarted \/ ~editorRef
        THEN /\ frames' = rest
             /\ ev' = [kind |-> "returned"]
             /\ sink = "none"
             /\ UNCHANGED timelineVars
             /\ UNCHANGED <<replStarted, lastActiveCodeRef, animationFrameRef,
                            startTimeRef, isManualEditing, selectedSegment,
                            lastEditorCodeRef, manualEditTimeoutRef, audioTime,
                            editorCode, editorRef, segmentVars, onUpdateState, run>>
        ELSE /\ sink \in (IF pushed THEN {"accepted", "setCodeThrows", "evaluateThrows"}
                          ELSE {"none"})
             /\ startTimeRef' = <<epoch>>
             /\ playheadPosition' = timelinePosition
             /\ lastActiveCodeRef' = IF pushed THEN rememberPushed(lastActiveCodeRef, activeCode)
                                     ELSE lastActiveCodeRef
             /\ editorCode' = IF pushed /\ sink # "setCodeThrows" THEN activeCode
                              ELSE editorCode
             /\ frames' = rest \cup {[id |-> FreshFrameId(rest), cb |-> cb]}
             /\ animationFrameRef' = FreshFrameId(rest)
             \* a playhead that changed renders ReplEditor again
             /\ IF timelinePosition # playheadPosition
                THEN ListenerEffect(selectedSegment)
                ELSE UNCHANGED <<manualEditTimeoutRef, onUpdateState>>
             /\ ev' = [kind |-> "tick", rendered |-> rendered, pushed |-> pushed,
                       program |-> IF rendered THEN activeCode ELSE EmptyString,
                       sink |-> sink,
                       raw |-> currentTime - epoch,
                       repeatMode |-> (sel # <<>> /\ sel[1].repeat),
                       firstTick |-> (run.epoch = <<>>),
                       firstRender |-> (rendered /\ ~run.rendered),
                       prevPushed |-> run.lastPushed]
             /\ run' = [epoch |-> IF run.epoch = <<>> THEN <<currentTime>> ELSE run.epoch,
                        lastPushed |-> IF pushed THEN <<activeCode>> ELSE run.lastPushed,
                        rendered |-> (run.rendered \/ rendered)]
             /\ UNCHANGED <<tracks, selectedSegmentId, duration, isPlaying, idCount,
                            songVars, replStarted, isManualEditing, selectedSegment,
                            lastEditorCodeRef, audioTime, editorRef, segmentVars>>

Tick == \E f \in frames : \E sink \in {"none", "accepted", "setCodeThrows", "evaluateThrows"} :
            updatePlayback(f, sink)

\* a timeline operation of the panel while the clock may be running: the
\* new tracks and selection, then the render that commits them
PanelEdit(trks, sel) ==
    /\ tracks' = trks
    /\ selectedSegmentId' = sel
    /\ RenderTimeline(trks, sel, isManualEditing, editorCode, playheadPosition)
    /\ ev' = [kind |-> "edit"]
    /\ UNCHANGED <<duration, idCount, replStarted, isManualEditing, audioTime,
                   editorRef, segmentVars, run>>
    /\ SaveEffect

\* handleToggleMute
ToggleMute ==
    \E i \in DOMAIN tracks :
        PanelEdit(updateTrackTracks(tracks, tracks[i].id, [muted |-> ~tracks[i].muted]),
                  selectedSegmentId)

\* handleToggleRepeat of a segment
ToggleRepeat ==
    \E i \in DOMAIN tracks : \E j \in DOMAIN tracks[i].segments :
        PanelEdit(updateSegmentTracks(tracks, tracks[i].id, tracks[i].segments[j].id,
                                      [repeat |-> ~tracks[i].segments[j].repeat]),
                  selectedSegmentId)

\* selectSegment(segmentId) from a click on a segment or on empty track area
\* (null); selecting what is selected already changes no state
selectSegment ==
    \E id \in SegmentIds \cup {Null} :
        /\ id # selectedSegmentId
        /\ PanelEdit(tracks, id)

\* The code surface reports its content: the host calls the handler chain
\* installed as editorRef.current.repl.onUpdateState with state.code =
\* currentCode.  `captured` is the selectedSegment the innermost
\* handleCodeChange captured.  A manual edit starts the quiet timer, and the
\* render its state updates cause runs the listener effect again.
handleCodeChange(currentCode) ==
    LET captured == onUpdateState[1]
        record(manual) ==
            [kind |-> "change", code |-> currentCode, manual |-> manual,
             selected |-> selectedSegment, lastKnown |-> lastEditorCodeRef,
             before |-> tracks, timerStarted |-> manual]
    IN  IF captured # <<>> /\ currentCode # lastEditorCodeRef
        THEN LET trks == updateSegmentTracks(tracks, captured[1].trackId,
                                             captured[1].id, [code |-> currentCode])
             IN  /\ isManualEditing' = TRUE
                 /\ tracks' = trks
                 /\ duration' = updateSegmentDuration(duration, tracks, duration,
                                    captured[1].trackId, captured[1].id,
                                    [code |-> currentCode])
                 /\ RenderTimeline(trks, selectedSegmentId, TRUE, currentCode,
                                   playheadPosition)
                 /\ ev' = record(TRUE)
                 /\ UNCHANGED <<selectedSegmentId, idCount, replStarted, audioTime,
                                editorRef, segmentVars, run>>
                 /\ SaveEffect
        ELSE /\ lastEditorCodeRef' = currentCode
             /\ editorCode' = currentCode
             /\ ev' = record(FALSE)
             /\ UNCHANGED timelineVars
             /\ UNCHANGED <<replStarted, lastActiveCodeRef, animationFrameRef, startTimeRef,
                            isManualEditing, selectedSegment, manualEditTimeoutRef,
                            frames, audioTime, editorRef, segmentVars, onUpdateState, run>>

\* code typed into the editor
TypedCodes == { <<"b">> }

\* a change event of the code surface; before any handleCodeChange is
\* installed it reaches only the editor's own handler
CodeChange ==
    /\ editorRef
    /\ \E c \in TypedCodes :
           IF onUpdateState # <<>> THEN handleCodeChange(c)
           ELSE /\ editorCode' = c
                /\ ev' = [kind |-> "unheard"]
                /\ UNCHANGED timelineVars
                /\ UNCHANGED <<replStarted, lastActiveCodeRef, animationFrameRef,
                               startTimeRef, isManualEditing, selectedSegment,
                               lastEditorCodeRef, manualEditTimeoutRef, frames,
                               audioTime, editorRef, segmentVars, onUpdateState, run>>

\* the code surface reports the program the clock has just pushed into it:
\* a change event whose code is the editor's new content
PushEcho ==
    /\ ev.kind = "tick" /\ ev.pushed /\ ev.sink # "setCodeThrows"
    /\ onUpdateState # <<>>
    /\ handleCodeChange(editorCode)

\* the quiet timer elapses: setIsManualEditing(false), and the render that
\* follows; enabled only while a timer set by handleCodeChange is pending
TimerElapses ==
    /\ manualEditTimeoutRef
    /\ isManualEditing' = FALSE
    /\ IF isManualEditing
       THEN /\ PlaybackEffect(Closure(replStarted, tracks, selectedSegmentId, FALSE),
                              playheadPosition)
            /\ ListenerEffect(selectedSegment)
       ELSE /\ manualEditTimeoutRef' = FALSE
            /\ UNCHANGED <<isPlaying, startTimeRef, frames, animationFrameRef,
                           playheadPosition, lastActiveCodeRef, onUpdateState>>
    /\ ev' = [kind |-> "quiet"]
    /\ UNCHANGED <<tracks, selectedSegmentId, duration, idCount, songVars, replStarted,
                   selectedSegment, lastEditorCodeRef, audioTime, editorCode,
                   editorRef, segmentVars, run>>

\* the host initialises the editor: editorRef.current = editor (a ref: no
\* render follows)
EditorInit ==
    /\ ~editorRef
    /\ editorRef' = TRUE
    /\ ev' = [kind |-> "editor"]
    /\ UNCHANGED segmentVars
    /\ UNCHANGED timelineVars
    /\ UNCHANGED <<replStarted, lastActiveCodeRef, animationFrameRef, startTimeRef,
                   isManualEditing, selectedSegment, lastEditorCodeRef,
                   manualEditTimeoutRef, frames, audioTime, editorCode,
                   onUpdateState, run>>

---------------------------------------------------------------------------
(* Song operations, each followed by the render that commits it.  A song   *)
(* that is loaded changes the tracks, the selection and the current song:  *)
(* the save effect, the start/stop effect, the panel's selection effect    *)
(* and the listener effect run.  An operation that changes the collection  *)
(* only renders ReplEditor again: the listener effect alone runs.          *)

\* loadSong that keeps the selection and the playhead
loadSongOnly(song, songId) ==
    /\ currentSongId' = songId
    /\ tracks' = song.tracks
    /\ duration' = song.duration
    /\ UNCHANGED selectedSegmentId
    /\ RenderTimeline(song.tracks, selectedSegmentId, isManualEditing, editorCode,
                      playheadPosition)

\* what switchSong (and createNewSong with switchToNew) hands to the
\* session setters for a song, and the render
loadSong(song, songId) ==
    /\ currentSongId' = songId
    /\ tracks' = song.tracks
    /\ duration' = song.duration
    /\ selectedSegmentId' = Null
    /\ RenderTimeline(song.tracks, Null, isManualEditing, editorCode, 0)

\* the render after a change of the collection alone
RenderSongs ==
    /\ ListenerEffect(selectedSegment)
    /\ UNCHANGED <<currentSongId, tracks, duration, selectedSegmentId, playheadPosition,
                   isPlaying, lastActiveCodeRef, animationFrameRef, startTimeRef,
                   selectedSegment, lastEditorCodeRef, frames, editorCode>>

createNewSong(name, switchToNew) ==
    /\ idCount < MaxIds
    /\ idCount' = idCount + 1
    /\ LET song == newSong(songs, generateId(idCount + 1), name)
           added == createNewSongSongs(songs, song)
       IN  IF switchToNew
           THEN /\ loadSong(song, song.id)
                /\ songs' = saveCurrentSong(added, song.id, song.tracks, song.duration)
           ELSE /\ songs' = added
                /\ RenderSongs
    /\ PersistEffect
    /\ ev' = [kind |-> "createNewSong", switched |-> switchToNew]
    /\ UNCHANGED <<replStarted, isManualEditing, audioTime, editorRef, segmentVars, run>>

\* switchSong.  An entry without tracks (renameSong makes one for an id that
\* is not there) is a song to it: setTracks(undefined), and the render that
\* follows throws on tracks.length (part_000:89)
switchSong(songId) ==
    /\ IF songId \in DOMAIN songs /\ "tracks" \in DOMAIN songs[songId]
       THEN /\ loadSong(songs[songId], songId)
            /\ songs' = saveCurrentSong(songs, songId, songs[songId].tracks,
                                        songs[songId].duration)
            /\ PersistEffect
       ELSE IF songId \in DOMAIN songs
       THEN /\ mounted' = FALSE
            /\ UNCHANGED <<songs, currentSongId, localStorage,
                           tracks, duration, selectedSegmentId,
                           playheadPosition, isPlaying, lastActiveCodeRef,
                           animationFrameRef, startTimeRef, selectedSegment,
                           lastEditorCodeRef, frames, editorCode, manualEditTimeoutRef,
                           onUpdateState>>
       ELSE UNCHANGED <<songs, currentSongId, localStorage, mounted,
                        tracks, duration, selectedSegmentId,
                        playheadPosition, isPlaying, lastActiveCodeRef,
                        animationFrameRef, startTimeRef, selectedSegment,
                        lastEditorCodeRef, frames, editorCode, manualEditTimeoutRef,
                        onUpdateState>>
    /\ ev' = [kind |-> "switchSong", id |-> songId, from |-> currentSongId,
              hadSelection |-> (selectedSegmentId # Null),
              hadPlayhead |-> (playheadPosition # 0)]
    /\ UNCHANGED <<idCount, replStarted, isManualEditing, audioTime, editorRef, segmentVars, run>>

renameSong(songId, newName) ==
    /\ songs' = renameSongSongs(songs, songId, newName)
    /\ RenderSongs
    /\ PersistEffect
    /\ ev' = [kind |-> "renameSong", id |-> songId]
    /\ UNCHANGED <<idCount, replStarted, isManualEditing, audioTime, editorRef, segmentVars, run>>

\* deleteSong; its switchSong('default') reads the songs of the render that
\* created the callback, the collection before the removal
deleteSong(songId) ==
    /\ IF ~isReservedSong(songId) /\ songId = currentSongId /\ DEFAULT \in DOMAIN songs
       THEN /\ loadSong(songs[DEFAULT], DEFAULT)
            /\ songs' = saveCurrentSong(deleteSongSongs(songs, songId), DEFAULT,
                                        songs[DEFAULT].tracks, songs[DEFAULT].duration)
            /\ PersistEffect
       ELSE IF isReservedSong(songId)
       THEN UNCHANGED <<songs, currentSongId, localStorage, mounted,
                        tracks, duration, selectedSegmentId,
                        playheadPosition, isPlaying, lastActiveCodeRef,
                        animationFrameRef, startTimeRef, selectedSegment,
                        lastEditorCodeRef, frames, editorCode, manualEditTimeoutRef,
                        onUpdateState>>
       ELSE /\ songs' = deleteSongSongs(songs, songId)
            /\ RenderSongs
            /\ PersistEffect
    /\ ev' = [kind |-> "deleteSong", id |-> songId,
              wasCurrent |-> (songId = currentSongId),
              hadSelection |-> (selectedSegmentId # Null),
              hadPlayhead |-> (playheadPosition # 0)]
    /\ UNCHANGED <<idCount, replStarted, isManualEditing, audioTime, editorRef, segmentVars, run>>

---------------------------------------------------------------------------
(* Initial state: a fresh session (default song: no tracks, duration 32),  *)
(* the component mounted with the REPL stopped                             *)

\* the collection of a session with nothing stored but, at most, the
\* tracks of the default song
\* the store and the tree after the effects of a mount that went through
InitStore ==
    /\ localStorage = [SONGS_LIST |-> <<JSONstringify(songs)>>,
                       CURRENT_SONG |-> <<currentSongId>>, writable |-> TRUE]
    /\ mounted = TRUE

InitSongs(trks) ==
    /\ currentSongId = DEFAULT
    /\ songs = [k \in {DEFAULT} |->
                   [id |-> DEFAULT, name |-> "Untitled Song", tracks |-> trks,
                    duration |-> 32]]
    /\ InitStore

InitTimeline ==
    /\ tracks = <<>>
    /\ selectedSegmentId = Null
    /\ playheadPosition = 0
    /\ duration = 32
    /\ isPlaying = FALSE
    /\ idCount = 0
    /\ InitSongs(<<>>)

InitClock ==
    /\ replStarted = FALSE
    /\ lastActiveCodeRef = EmptyString
    /\ animationFrameRef = 0
    /\ startTimeRef = <<>>
    /\ isManualEditing = FALSE
    /\ selectedSegment = <<>>
    /\ lastEditorCodeRef = EmptyString
    /\ manualEditTimeoutRef = FALSE
    /\ frames = {}
    /\ audioTime = 0
    /\ editorCode = EmptyString
    /\ ev = [kind |-> "init"]
    /\ run = NewRun

\* the editor as the mount finds it: when it is there the listener effect
\* of the mount installs a handleCodeChange that captured selectedSegment =
\* null
\* no Segment component holds the pointer (Segment.jsx:17-19)
InitSegment ==
    /\ isDragging = FALSE
    /\ isResizing = FALSE
    /\ dragStartRef = [x |-> 0, startTime |-> 0, duration |-> 0]
    /\ pressed = <<>>

InitEditor(ready) ==
    /\ editorRef = ready
    /\ onUpdateState = IF ready THEN << <<>> >> ELSE <<>>

Init == InitTimeline /\ InitClock /\ InitEditor(TRUE) /\ InitSegment

\* a session stored by an earlier run: one track, a white-space segment at
\* [0, 2) and a fragment at [1, 3)
StoredTracks ==
    << [id |-> "t1", name |-> "Track 1", color |-> TRACK_COLORS[1],
        muted |-> FALSE, solo |-> FALSE,
        segments |-> << [id |-> "s1", code |-> <<" ">>, startTime |-> 0, duration |-> 2,
                         name |-> "Untitled", repeat |-> FALSE],
                        [id |-> "s2", code |-> <<"a">>, startTime |-> 1, duration |-> 2,
                         name |-> "Untitled", repeat |-> FALSE] >>] >>

InitStored ==
    /\ tracks \in {<<>>, StoredTracks}
    /\ selectedSegmentId = Null
    /\ playheadPosition = 0
    /\ duration = 32
    /\ isPlaying = FALSE
    /\ idCount = 0
    /\ InitSongs(tracks)
    /\ InitClock
    /\ \E ready \in BOOLEAN : InitEditor(ready)
    /\ InitSegment

AddTrackStep == addTrack("")
RemoveTrackStep == \E id \in TrackIds : removeTrack(id)
UpdateTrackStep(updates) == \E id \in TrackIds, u \in updates : updateTrack(id, u)
AddSegmentStep(inputs) == \E id \in TrackIds, d \in inputs : addSegment(id, d)
RemoveSegmentStep ==
    \E i \in DOMAIN tracks : \E j \in DOMAIN tracks[i].segments :
        removeSegment(tracks[i].id, tracks[i].segments[j].id)
UpdateSegmentStep(updates) ==
    \E i \in DOMAIN tracks : \E j \in DOMAIN tracks[i].segments : \E u \in updates :
        updateSegment(tracks[i].id, tracks[i].segments[j].id, u)

\* the timeline model under mute/solo and placement edits
Next ==
    \/ AddTrackStep
    \/ RemoveTrackStep
    \/ UpdateTrackStep(MuteSoloUpdates)
    \/ AddSegmentStep(PlacedInputs)
    \/ RemoveSegmentStep
    \/ UpdateSegmentStep(PlacedUpdates)

Spec == Init /\ [][Next]_vars

\* the timeline model under code edits
NextCompose ==
    \/ AddTrackStep
    \/ RemoveTrackStep
    \/ UpdateTrackStep(MuteUpdates)
    \/ AddSegmentStep(CodedInputs)
    \/ RemoveSegmentStep
    \/ UpdateSegmentStep(CodedUpdates)

SpecCompose == Init /\ [][NextCompose]_vars

\* the timeline model under placements around the duration watermark, on
\* one track
FirstTrackStep == tracks = <<>> /\ addTrack("")

NextWatermark ==
    \/ FirstTrackStep
    \/ AddSegmentStep(WatermarkInputs)
    \/ RemoveSegmentStep
    \/ UpdateSegmentStep(WatermarkUpdates)

SpecWatermark == Init /\ [][NextWatermark]_vars

\* track ids addSegment is called with: the tracks there are and an id that
\* names none
TrackIdInputs == TrackIds \cup {"missing"}

AddSecondTrackStep == Len(tracks) < 2 /\ addTrack("")
AddSegmentAnyStep(inputs) == \E id \in TrackIdInputs, d \in inputs : addSegment(id, d)

\* two addSegment calls of one handler: both are the callback of the same
\* render, so both compare with the duration that render captured, and the
\* tracks updaters and the setDuration calls are applied in order
addSegmentTwice(trackId, first, second) ==
    /\ idCount + 2 <= MaxIds
    /\ idCount' = idCount + 2
    /\ LET segment1 == newSegment(generateId(idCount + 1), first)
           segment2 == newSegment(generateId(idCount + 2), second)
       IN  /\ tracks' = addSegmentTracks(addSegmentTracks(tracks, trackId, segment1),
                                         trackId, segment2)
           /\ duration' = addSegmentDuration(addSegmentDuration(duration, duration, segment1),
                                             duration, segment2)
    /\ UNCHANGED <<selectedSegmentId, playheadPosition, isPlaying>>
    /\ SaveEffect
    /\ UNCHANGED clockVars

\* updateSegmentTwice whose second call merges into the tracks of the render
updateSegmentTwiceStale(trackId, segmentId, first, second) ==
    /\ tracks' = updateSegmentTracks(tracks, trackId, segmentId, second)
    /\ duration' = updateSegmentDuration(
                       updateSegmentDuration(duration, tracks, duration, trackId,
                                             segmentId, first),
                       tracks, duration, trackId, segmentId, second)
    /\ UNCHANGED <<selectedSegmentId, playheadPosition, isPlaying, idCount>>
    /\ SaveEffect
    /\ UNCHANGED clockVars

\* two updateSegment calls before the next render (two pointer moves of a
\* drag): both read the tracks and the duration of the same render
updateSegmentTwice(trackId, segmentId, first, second) ==
    /\ tracks' = updateSegmentTracks(updateSegmentTracks(tracks, trackId, segmentId, first),
                                     trackId, segmentId, second)
    /\ duration' = updateSegmentDuration(
                       updateSegmentDuration(duration, tracks, duration, trackId,
                                             segmentId, first),
                       tracks, duration, trackId, segmentId, second)
    /\ UNCHANGED <<selectedSegmentId, playheadPosition, isPlaying, idCount>>
    /\ SaveEffect
    /\ UNCHANGED clockVars

AddSegmentTwiceStep(inputs) ==
    \E id \in TrackIds, d1 \in inputs, d2 \in inputs : addSegmentTwice(id, d1, d2)
UpdateSegmentTwiceStep(updates) ==
    \E i \in DOMAIN tracks : \E j \in DOMAIN tracks[i].segments :
        \E u1 \in updates : \E u2 \in updates \ {u1} :
            updateSegmentTwice(tracks[i].id, tracks[i].segments[j].id, u1, u2)

\* handleAddToTimeline with no track given: addTrack, then addSegment with
\* the id addTrack returned, in one handler; the tracks updaters are applied
\* in order
addTrackThenSegment(name, segmentData) ==
    /\ idCount + 2 <= MaxIds
    /\ idCount' = idCount + 2
    /\ LET targetTrackId == generateId(idCount + 1)
           segment == newSegment(generateId(idCount + 2), segmentData)
       IN  /\ tracks' = addSegmentTracks(
                            addTrackTracks(tracks, tracks, targetTrackId, name),
                            targetTrackId, segment)
           /\ duration' = addSegmentDuration(duration, duration, segment)
    /\ UNCHANGED <<selectedSegmentId, playheadPosition, isPlaying>>
    /\ SaveEffect
    /\ UNCHANGED clockVars

\* what the handler hands to addSegment: code, the playhead as startTime,
\* duration 8 and a name
AddToTimelineInputs ==
    {[code |-> <<"a">>, startTime |-> st, duration |-> 8, name |-> "a"] : st \in {0, 30}}

\* fields of a pointer move of a drag and of the write-back of typed code
MergeUpdates == {[startTime |-> 2], [startTime |-> 4], [code |-> <<"b">>]}

AddTrackThenSegmentStep ==
    /\ idCount + 2 <= MaxIds
    /\ \E d \in AddToTimelineInputs :
        addTrackThenSegment("Track " \o ToString(Len(tracks) + 1), d)

NextMerge ==
    \/ AddTrackThenSegmentStep
    \/ AddSegmentStep(AddToTimelineInputs)
    \/ UpdateSegmentTwiceStep(MergeUpdates)
    \/ RemoveSegmentStep

\* the timeline under handlers that mutate twice before the next render
SpecMerge == Init /\ [][NextMerge]_vars

\* segmentData bags of the calls: fields left out, a placement beyond the
\* duration, a placement inside it
CallInputs ==
    {[code |-> EmptyString], [name |-> "intro"]}
    \cup {[startTime |-> st, duration |-> 3] : st \in {30, 38}}
CallUpdates == {[startTime |-> 38], [duration |-> 11]}

NextCalls ==
    \/ AddSecondTrackStep
    \/ AddSegmentAnyStep(CallInputs)
    \/ AddSegmentTwiceStep(CallInputs)
    \/ UpdateSegmentTwiceStep(CallUpdates)
    \/ selectSegment

\* the timeline under calls with any track id and under handlers that call
\* twice
SpecCalls == Init /\ [][NextCalls]_vars

\* ids updateTrack and updateSegment are called with: those there are and
\* one that names nothing
SegmentIdInputs == SegmentIds \cup {"missing"}

UpdateTrackAnyStep(updates) ==
    \E id \in TrackIdInputs, u \in updates : updateTrack(id, u)
UpdateSegmentAnyStep(updates) ==
    \E tid \in TrackIdInputs, sid \in SegmentIdInputs, u \in updates :
        updateSegment(tid, sid, u)

\* field bags of the frame runs: a placement that ends beyond the duration
\* of a fresh session, a move earlier, shorter and longer, a mute and a
\* rename
FrameInputs == {[startTime |-> 30, duration |-> 3]}
FrameUpdates == {[startTime |-> 2], [duration |-> 1], [duration |-> 12]}
FrameTrackUpdates == {[muted |-> TRUE], [name |-> "drums"]}

NextFrame ==
    \/ AddSecondTrackStep
    \/ RemoveTrackStep
    \/ UpdateTrackAnyStep(FrameTrackUpdates)
    \/ AddSegmentStep(FrameInputs)
    \/ RemoveSegmentStep
    \/ UpdateSegmentAnyStep(FrameUpdates)

\* the timeline under its six operations, one call per render
SpecFrame == Init /\ [][NextFrame]_vars

\* segmentData bags of a handler that adds two segments
TwiceInputs == {[startTime |-> 44, duration |-> 3], [startTime |-> 30, duration |-> 3]}

NextSequences ==
    \/ AddSecondTrackStep
    \/ RemoveTrackStep
    \/ UpdateTrackAnyStep(FrameTrackUpdates)
    \/ AddSegmentStep(FrameInputs)
    \/ AddSegmentTwiceStep(TwiceInputs)
    \/ RemoveSegmentStep
    \/ UpdateSegmentAnyStep(FrameUpdates)

\* the six operations in any sequence, handlers that call twice included
SpecSequences == Init /\ [][NextSequences]_vars

\* a removal from the panel while the clock may be running: the new tracks
\* and selection, then the render that commits them
PanelRemove(trks, sel, removed) ==
    /\ tracks' = trks
    /\ selectedSegmentId' = sel
    /\ RenderTimeline(trks, sel, isManualEditing, editorCode, playheadPosition)
    /\ ev' = [kind |-> "remove", removed |-> removed, was |-> selectedSegmentId]
    /\ UNCHANGED <<duration, idCount, replStarted, isManualEditing, audioTime,
                   editorRef, segmentVars, run>>
    /\ SaveEffect

\* onRemoveSegment of a segment
PanelRemoveSegment ==
    \E i \in DOMAIN tracks : \E j \in DOMAIN tracks[i].segments :
        LET segmentId == tracks[i].segments[j].id
        IN  PanelRemove(removeSegmentTracks(tracks, tracks[i].id, segmentId),
                        removeSegmentSelection(selectedSegmentId, selectedSegmentId,
                                               segmentId),
                        {segmentId})

\* onRemoveTrack of a track
PanelRemoveTrack ==
    \E i \in DOMAIN tracks :
        PanelRemove(removeTrackTracks(tracks, tracks[i].id),
                    removeTrackSelection(selectedSegmentId, tracks, tracks[i].id),
                    {tracks[i].segments[j].id : j \in DOMAIN tracks[i].segments})

\* song ids the song operations are called with: the songs there are and
\* an id that names none
SongIdInputs == DOMAIN songs \cup {"missing"}

CreateSongStep ==
    /\ idCount < MaxSongs
    /\ \E switchToNew \in BOOLEAN : createNewSong("", switchToNew)
SwitchSongStep == \E id \in SongIdInputs : switchSong(id)
\* the panel renames the current song, to a name it does not have
RenameSongStep ==
    \E newName \in {"renamed"} :
        /\ (currentSongId \in DOMAIN songs /\ "name" \in DOMAIN songs[currentSongId])
               => songs[currentSongId].name # newName
        /\ renameSong(currentSongId, newName)
DeleteSongStep == \E id \in SongIdInputs : deleteSong(id)

\* a second song stored by an earlier run: one track with one segment
StoredSong ==
    [id |-> "song1", name |-> "Song 2", duration |-> 40,
     tracks |-> << [id |-> "t2", name |-> "Track 1", color |-> TRACK_COLORS[1],
                    muted |-> FALSE, solo |-> FALSE,
                    segments |-> << [id |-> "s3", code |-> <<"b">>, startTime |-> 0,
                                     duration |-> 2, name |-> "Untitled",
                                     repeat |-> FALSE] >>] >>]

\* the stored collection: the default song, alone or with the second song
InitStoredSongs ==
    /\ currentSongId = DEFAULT
    /\ \E stored \in {<<>>, <<StoredSong>>} :
           songs = [k \in {DEFAULT} \cup {stored[i].id : i \in DOMAIN stored} |->
                       IF k = DEFAULT
                       THEN [id |-> DEFAULT, name |-> "Untitled Song",
                             tracks |-> StoredTracks, duration |-> 32]
                       ELSE stored[1]]
    /\ InitStore

\* a stored session at rest, the editor ready
InitSongsStored ==
    /\ tracks = StoredTracks
    /\ selectedSegmentId = Null
    /\ playheadPosition = 0
    /\ duration = 32
    /\ isPlaying = FALSE
    /\ idCount = 0
    /\ InitStoredSongs
    /\ InitClock
    /\ InitEditor(TRUE)
    /\ InitSegment

\* the same session two seconds into a run: s2 was selected, the REPL
\* started, and the tick at audio time 2 published the playhead 2 and
\* pushed the program of s2; the next tick is pending
InitSongsPlaying ==
    LET program == generateCombinedCode(StoredTracks, 2)
        cb == Closure(TRUE, StoredTracks, "s2", FALSE)
    IN  /\ tracks = StoredTracks
        /\ selectedSegmentId = "s2"
        /\ playheadPosition = 2
        /\ duration = 32
        /\ isPlaying = TRUE
        /\ idCount = 0
        /\ InitStoredSongs
        /\ InitEditor(TRUE)
        /\ InitSegment
        /\ replStarted = TRUE
        /\ lastActiveCodeRef = program
        /\ animationFrameRef = 1
        /\ startTimeRef = <<0>>
        /\ isManualEditing = FALSE
        /\ selectedSegment = getSelectedSegment(StoredTracks, "s2")
        /\ lastEditorCodeRef = <<"a">>
        /\ manualEditTimeoutRef = FALSE
        /\ frames = {[id |-> 1, cb |-> cb]}
        /\ audioTime = 2
        /\ editorCode = program
        /\ ev = [kind |-> "tick", rendered |-> TRUE, pushed |-> TRUE, program |-> program,
                 sink |-> "accepted", raw |-> 2, repeatMode |-> FALSE,
                 firstTick |-> FALSE, firstRender |-> FALSE, prevPushed |-> <<>>]
        /\ run = [epoch |-> <<0>>, lastPushed |-> <<program>>, rendered |-> TRUE]

\* a segment on a song that has none yet
FirstSegmentStep ==
    /\ \A i \in DOMAIN tracks : tracks[i].segments = <<>>
    /\ AddSegmentStep({[startTime |-> 38, duration |-> 3]})

NextSongs ==
    \/ CreateSongStep
    \/ SwitchSongStep
    \/ RenameSongStep
    \/ DeleteSongStep
    \/ FirstTrackStep
    \/ FirstSegmentStep
    \/ selectSegment

\* the song collection under song operations, with the panel and the clock:
\* a fresh session or a stored one, at rest or two seconds into a run
SpecSongs == (Init \/ InitSongsStored \/ InitSongsPlaying) /\ [][NextSongs]_vars

\* the stored session with a second track that holds one segment
StoredTwoTracks ==
    StoredTracks \o
    << [id |-> "t3", name |-> "Track 2", color |-> TRACK_COLORS[2],
        muted |-> FALSE, solo |-> FALSE,
        segments |-> << [id |-> "s4", code |-> <<"b">>, startTime |-> 4, duration |-> 2,
                         name |-> "Untitled", repeat |-> FALSE] >>] >>

\* a stored session of two songs at rest, the default song with two tracks
InitSelection ==
    /\ tracks = StoredTwoTracks
    /\ selectedSegmentId = Null
    /\ playheadPosition = 0
    /\ duration = 32
    /\ isPlaying = FALSE
    /\ idCount = 0
    /\ currentSongId = DEFAULT
    /\ songs = [k \in {DEFAULT, StoredSong.id} |->
                   IF k = DEFAULT
                   THEN [id |-> DEFAULT, name |-> "Untitled Song",
                         tracks |-> StoredTwoTracks, duration |-> 32]
                   ELSE StoredSong]
    /\ InitStore
    /\ InitClock
    /\ InitEditor(TRUE)
    /\ InitSegment

\* handleCreateNewSong of the panel: createNewSong(name) without
\* switchToNew, then switchSong(newSongId) in the same handler; that
\* switchSong is the callback of the render before the handler, and reads
\* the songs of that render
handleCreateNewSong ==
    /\ idCount < MaxIds
    /\ idCount' = idCount + 1
    /\ LET newSongId == generateId(idCount + 1)
           name == "Song " \o ToString(Cardinality(DOMAIN songs) + 1)
           added == createNewSongSongs(songs, newSong(songs, newSongId, name))
       IN  /\ IF newSongId \in DOMAIN songs /\ "tracks" \in DOMAIN songs[newSongId]
              THEN /\ loadSong(songs[newSongId], newSongId)
                   /\ songs' = saveCurrentSong(added, newSongId, songs[newSongId].tracks,
                                               songs[newSongId].duration)
              ELSE /\ songs' = added
                   /\ RenderSongs
           /\ ev' = [kind |-> "handleCreateNewSong", id |-> newSongId]
    /\ PersistEffect
    /\ UNCHANGED <<replStarted, isManualEditing, audioTime, editorRef, segmentVars, run>>

HandleCreateNewSongStep == idCount < MaxSongs /\ handleCreateNewSong

NextNewSong ==
    \/ HandleCreateNewSongStep
    \/ SwitchSongStep
    \/ DeleteSongStep
    \/ selectSegment

\* the panel's song actions on a stored session
SpecNewSong == InitSongsStored /\ [][NextNewSong]_vars

NextSelection ==
    \/ selectSegment
    \/ PanelRemoveSegment
    \/ PanelRemoveTrack
    \/ CreateSongStep
    \/ SwitchSongStep
    \/ DeleteSongStep

\* the selection under removals and song operations
SpecSelection == InitSelection /\ [][NextSelection]_vars

\* what an earlier run, or anything else, may have left in the store: no
\* songs key, the stored collection, a collection without the default song,
\* text that is no JSON; no current-song key, the id of a stored song, an
\* id that is not in the collection
StoredCollection ==
    [k \in {DEFAULT, StoredSong.id} |->
        IF k = DEFAULT
        THEN [id |-> DEFAULT, name |-> "Untitled Song", tracks |-> StoredTracks,
              duration |-> 32]
        ELSE StoredSong]
StoredTexts ==
    { JSONstringify(StoredCollection),
      JSONstringify([k \in {StoredSong.id} |-> StoredSong]),
      [text |-> "{"] }
StoredStores ==
    { [SONGS_LIST |-> sl, CURRENT_SONG |-> cs, writable |-> TRUE] :
        sl \in {<<>>} \cup {<<t>> : t \in StoredTexts},
        cs \in {<<>>, <<StoredSong.id>>, <<"gone">>} }

DefaultAlone == [k \in {DEFAULT} |-> StoredCollection[k]]

\* the stores a session leaves behind: nothing, or both keys as its
\* persistence effects wrote them
WrittenStores ==
    { [SONGS_LIST |-> <<>>, CURRENT_SONG |-> <<>>, writable |-> TRUE] }
    \cup { [SONGS_LIST |-> <<JSONstringify(DefaultAlone)>>, CURRENT_SONG |-> <<DEFAULT>>,
            writable |-> TRUE] }

\* the mount of useTimeline on a store: the initialisers, then the effects
\* of the first render (both keys written, the session saved into
\* songs[currentSongId]); when an initialiser throws nothing is mounted and
\* the session variables stand for nothing
Mount(store) ==
    LET l == loadState(store)
    IN  IF l.throws
        THEN /\ mounted = FALSE
             /\ localStorage = store
             /\ songs = <<>>
             /\ currentSongId = DEFAULT
             /\ tracks = <<>>
             /\ duration = 0
        ELSE /\ mounted = TRUE
             /\ tracks = l.currentSong.tracks
             /\ duration = l.currentSong.duration
             /\ currentSongId = l.currentSongId
             /\ songs = saveCurrentSong(l.songs, l.currentSongId, l.currentSong.tracks,
                                        l.currentSong.duration)
             /\ localStorage = setItems(store, songs, currentSongId)

InitLoad(stores) ==
    /\ \E store \in stores : Mount(store)
    /\ selectedSegmentId = Null
    /\ playheadPosition = 0
    /\ isPlaying = FALSE
    /\ idCount = 0
    /\ InitClock
    /\ InitEditor(TRUE)
    /\ InitSegment

\* the store stops taking writes (its quota is used up)
StoreFills ==
    /\ localStorage.writable
    /\ localStorage' = [localStorage EXCEPT !.writable = FALSE]
    /\ UNCHANGED <<tracks, selectedSegmentId, playheadPosition, duration, isPlaying,
                   idCount, songs, currentSongId, mounted, clockVars>>

\* the operations of a mounted session on the store
PersistTrackAdd == mounted /\ FirstTrackStep
PersistTrackRemove == mounted /\ RemoveTrackStep
PersistSegmentAdd == mounted /\ FirstSegmentStep
PersistSegmentRemove == mounted /\ RemoveSegmentStep
PersistSegmentUpdate == mounted /\ UpdateSegmentStep({[duration |-> 40]})
PersistSongCreate == mounted /\ CreateSongStep
PersistSongSwitch == mounted /\ SwitchSongStep
PersistSongRename == mounted /\ RenameSongStep
PersistSongDelete == mounted /\ DeleteSongStep
PersistStoreFills == mounted /\ StoreFills

NextPersist ==
    \/ PersistTrackAdd
    \/ PersistTrackRemove
    \/ PersistSegmentAdd
    \/ PersistSegmentRemove
    \/ PersistSegmentUpdate
    \/ PersistSongCreate
    \/ PersistSongSwitch
    \/ PersistSongRename
    \/ PersistSongDelete
    \/ PersistStoreFills

\* sessions on the stores sessions leave behind
SpecPersist == InitLoad(WrittenStores) /\ [][NextPersist]_vars

NextLoad ==
    \/ PersistTrackAdd
    \/ PersistSegmentAdd
    \/ PersistSongCreate
    \/ PersistSongSwitch
    \/ PersistSongRename
    \/ PersistSongDelete
    \/ PersistStoreFills

\* sessions on whatever the store may hold
SpecLoad == InitLoad(StoredStores) /\ [][NextLoad]_vars


\* renameSong as the hook exports it: any id, in the collection or not
RenameAnySongStep == \E id \in SongIdInputs : renameSong(id, "renamed")
PersistSongRenameAny == mounted /\ RenameAnySongStep

NextCollection ==
    \/ PersistSongCreate
    \/ PersistSongSwitch
    \/ PersistSongRenameAny
    \/ PersistSongDelete
    \/ PersistTrackAdd
    \/ PersistSegmentAdd

\* the song collection of a session on the stores sessions leave behind,
\* under the song operations with any id
SpecCollection == InitLoad(WrittenStores) /\ [][NextCollection]_vars


NextFields ==
    \/ UpdateTrackAnyStep(FrameTrackUpdates)
    \/ UpdateSegmentAnyStep(FrameUpdates)

\* the field updates on a stored session of two tracks
SpecFields == InitSelection /\ [][NextFields]_vars

\* the clock, the editor and the panel on a stored session
NextClock ==
    \/ StartSignal
    \/ StopSignal
    \/ AdvanceAudio
    \/ Tick
    \/ ToggleMute
    \/ ToggleRepeat
    \/ selectSegment
    \/ CodeChange
    \/ EditorInit

SpecClock == InitStored /\ [][NextClock]_vars

\* the arbiter: the clock and the code surface, whose change events are
\* typed code and the echo of a push
NextArbiter ==
    \/ StartSignal
    \/ AdvanceAudio
    \/ Tick
    \/ selectSegment
    \/ CodeChange
    \/ PushEcho
    \/ EditorInit

SpecArbiter == InitStored /\ [][NextArbiter]_vars

---------------------------------------------------------------------------
(* The pointer gestures of a Segment (Segment.jsx): drag and resize        *)

PIXELS_PER_SECOND == 50

MathMax(a, b) == IF a >= b THEN a ELSE b

\* the segment a Segment component renders: its `segment` prop
SegmentProp(trackId, segmentId) ==
    LET i == CHOOSE i \in DOMAIN tracks : tracks[i].id = trackId
        j == CHOOSE j \in DOMAIN tracks[i].segments : tracks[i].segments[j].id = segmentId
    IN  tracks[i].segments[j]

\* the render of the panel after a handler of a Segment changed the hook's
\* state, with its effects
SegmentRender(trks, sel, dur) ==
    /\ tracks' = trks
    /\ selectedSegmentId' = sel
    /\ duration' = dur
    /\ RenderTimeline(trks, sel, isManualEditing, editorCode, playheadPosition)
    /\ UNCHANGED <<idCount, replStarted, isManualEditing, audioTime, editorRef, run>>
    /\ SaveEffect

\* a handler of a Segment that changed nothing of the hook's state: only
\* the Segment renders
SegmentOnly ==
    UNCHANGED <<timelineVars, replStarted, lastActiveCodeRef, animationFrameRef,
                startTimeRef, isManualEditing, selectedSegment, lastEditorCodeRef,
                manualEditTimeoutRef, frames, audioTime, editorCode, editorRef,
                onUpdateState, run>>

\* onSelect(segment.id): selecting the selected segment changes no state
onSelect(segmentId) ==
    IF segmentId = selectedSegmentId
    THEN SegmentOnly
    ELSE SegmentRender(tracks, segmentId, duration)

\* the component modelled is the one that took the last mousedown; another
\* Segment takes the pointer when this one holds no gesture
TakesPointer(segmentId) ==
    IF pressed = <<>>
    THEN TRUE
    ELSE pressed[1].segmentId = segmentId \/ (~isDragging /\ ~isResizing)

handleMouseDown(trackId, segmentId, clientX) ==
    /\ TakesPointer(segmentId)
    /\ onSelect(segmentId)
    /\ isDragging' = TRUE
    /\ isResizing' = IF pressed # <<>> /\ pressed[1].segmentId = segmentId
                     THEN isResizing ELSE FALSE
    /\ dragStartRef' = [x |-> clientX,
                        startTime |-> SegmentProp(trackId, segmentId).startTime,
                        duration |-> SegmentProp(trackId, segmentId).duration]
    /\ pressed' = <<[trackId |-> trackId, segmentId |-> segmentId]>>
    /\ ev' = [kind |-> "mousedown"]

handleResizeStart(trackId, segmentId, clientX, side) ==
    /\ TakesPointer(segmentId)
    /\ onSelect(segmentId)
    /\ isResizing' = TRUE
    /\ isDragging' = IF pressed # <<>> /\ pressed[1].segmentId = segmentId
                     THEN isDragging ELSE FALSE
    /\ dragStartRef' = [x |-> clientX,
                        startTime |-> SegmentProp(trackId, segmentId).startTime,
                        duration |-> SegmentProp(trackId, segmentId).duration,
                        side |-> side]
    /\ pressed' = <<[trackId |-> trackId, segmentId |-> segmentId]>>
    /\ ev' = [kind |-> "resizestart"]

\* handleMouseMove whose left-resize has no minimum of one second
handleMouseMoveUpdatesNoMinimum(dragging, resizing, ref, clientX) ==
    LET deltaX == clientX - ref.x
        deltaTime == deltaX \div PIXELS_PER_SECOND
    IN  IF dragging
        THEN <<[startTime |-> MathMax(0, ref.startTime + deltaTime)]>>
        ELSE IF resizing
        THEN IF ref.side = "left"
             THEN LET newStartTime == MathMax(0, ref.startTime + deltaTime)
                      newDuration == ref.duration - (newStartTime - ref.startTime)
                  IN  <<[startTime |-> newStartTime, duration |-> newDuration]>>
             ELSE <<[duration |-> MathMax(1, ref.duration + deltaTime)]>>
        ELSE <<>>

\* the updates handleMouseMove hands to onUpdateSegment: <<>> when it makes
\* no call, else <<the update>>; clientX - x is a whole number of seconds
handleMouseMoveUpdates(dragging, resizing, ref, clientX) ==
    LET deltaX == clientX - ref.x
        deltaTime == deltaX \div PIXELS_PER_SECOND
    IN  IF dragging
        THEN <<[startTime |-> MathMax(0, ref.startTime + deltaTime)]>>
        ELSE IF resizing
        THEN IF ref.side = "left"
             THEN LET newStartTime == MathMax(0, ref.startTime + deltaTime)
                      newDuration == ref.duration - (newStartTime - ref.startTime)
                  IN  IF newDuration >= 1
                      THEN <<[startTime |-> newStartTime, duration |-> newDuration]>>
                      ELSE <<>>
             ELSE <<[duration |-> MathMax(1, ref.duration + deltaTime)]>>
        ELSE <<>>

\* the document's mousemove listener, attached while isDragging or
\* isResizing
handleMouseMove(clientX) ==
    /\ pressed # <<>>
    /\ isDragging \/ isResizing
    /\ LET trackId == pressed[1].trackId
           segmentId == pressed[1].segmentId
           issued == handleMouseMoveUpdates(isDragging, isResizing, dragStartRef, clientX)
       IN  /\ IF issued = <<>>
              THEN SegmentOnly
              ELSE /\ LET after == Spread(SegmentProp(trackId, segmentId), issued[1])
                      IN  after.startTime + after.duration <= MaxPointerTime
                   /\ SegmentRender(updateSegmentTracks(tracks, trackId, segmentId, issued[1]),
                                    selectedSegmentId,
                                    updateSegmentDuration(duration, tracks, duration,
                                                          trackId, segmentId, issued[1]))
           /\ ev' = [kind |-> "mousemove", issued |-> issued,
                     before |-> SegmentProp(trackId, segmentId),
                     mode |-> IF isDragging THEN "drag" ELSE dragStartRef.side,
                     deltaTime |-> (clientX - dragStartRef.x) \div PIXELS_PER_SECOND]
    /\ UNCHANGED segmentVars

\* the document's mouseup listener
handleMouseUp ==
    /\ pressed # <<>>
    /\ isDragging \/ isResizing
    /\ isDragging' = FALSE
    /\ isResizing' = FALSE
    /\ UNCHANGED <<dragStartRef, pressed>>
    /\ SegmentOnly
    /\ ev' = [kind |-> "mouseup"]

\* where the pointer goes down and where it moves to, in pixels: moves of
\* 3 and 1 seconds to the left, 1 and 2 seconds to the right
DownXs == {100}
MoveXs == {-50, 50, 150, 200}

MouseDownStep ==
    \E i \in DOMAIN tracks : \E j \in DOMAIN tracks[i].segments : \E x \in DownXs :
        handleMouseDown(tracks[i].id, tracks[i].segments[j].id, x)
ResizeStartStep ==
    \E i \in DOMAIN tracks : \E j \in DOMAIN tracks[i].segments : \E x \in DownXs :
        \E side \in {"left", "right"} :
            handleResizeStart(tracks[i].id, tracks[i].segments[j].id, x, side)
MouseMoveStep == \E x \in MoveXs : handleMouseMove(x)

NextPointer ==
    \/ MouseDownStep
    \/ ResizeStartStep
    \/ MouseMoveStep
    \/ handleMouseUp

\* the gestures on the segments of a stored session
SpecPointer == InitSongsStored /\ [][NextPointer]_vars

---------------------------------------------------------------------------
(* Properties of the resolver and the compositor *)

\* times at which the resolver is asked: before, inside and after every
\* segment the inputs can place
QueryTimes == -1 .. 11

TrackOf(trks, id) == trks[CHOOSE i \in DOMAIN trks : trks[i].id = id]

hasSoloTrack == \E i \in DOMAIN tracks : tracks[i].solo
Survives(track) == ~track.muted /\ (hasSoloTrack => track.solo)
Contains(segment, t) ==
    segment.startTime <= t /\ t < segment.startTime + segment.duration
IsActive(segment, t) ==
    \E i \in DOMAIN getActiveSegments(tracks, t) :
        getActiveSegments(tracks, t)[i].id = segment.id

\* C1: at every time, no segment of a muted track is in getActiveSegments
C1_MutedNeverActive ==
    \A t \in QueryTimes :
        \A i \in DOMAIN getActiveSegments(tracks, t) :
            ~TrackOf(tracks, getActiveSegments(tracks, t)[i].trackId).muted

\* a muted track has a segment at t while another track contributes at t
C1_Witness ==
    \E t \in QueryTimes :
        /\ \E i \in DOMAIN tracks :
               /\ tracks[i].muted
               /\ \E j \in DOMAIN tracks[i].segments : Contains(tracks[i].segments[j], t)
        /\ getActiveSegments(tracks, t) # <<>>

\* C2: when some track is solo, every segment in getActiveSegments belongs
\* to a solo track, at every time
C2_SoloExcludesOthers ==
    hasSoloTrack =>
        \A t \in QueryTimes :
            \A i \in DOMAIN getActiveSegments(tracks, t) :
                TrackOf(tracks, getActiveSegments(tracks, t)[i].trackId).solo

\* a solo track plays at t while an unmuted non-solo track has a segment at t
C2_Witness ==
    \E t \in QueryTimes :
        /\ \E i \in DOMAIN tracks :
               /\ ~tracks[i].solo /\ ~tracks[i].muted
               /\ \E j \in DOMAIN tracks[i].segments : Contains(tracks[i].segments[j], t)
        /\ hasSoloTrack
        /\ getActiveSegments(tracks, t) # <<>>

\* C3: a segment of a track that survives mute/solo is in
\* getActiveSegments(t) exactly when startTime <= t < startTime + duration
C3_HalfOpenInterval ==
    \A t \in QueryTimes :
        \A i \in DOMAIN tracks :
            Survives(tracks[i]) =>
                \A j \in DOMAIN tracks[i].segments :
                    IsActive(tracks[i].segments[j], t) <=> Contains(tracks[i].segments[j], t)

\* a surviving segment is active at its start and not at its end
C3_Witness ==
    \E i \in DOMAIN tracks :
        /\ Survives(tracks[i])
        /\ \E j \in DOMAIN tracks[i].segments :
               LET s == tracks[i].segments[j]
               IN  /\ IsActive(s, s.startTime)
                   /\ ~IsActive(s, s.startTime + s.duration)
                   /\ s.startTime + s.duration \in QueryTimes

\* the code of a segment says nothing: empty or silence once trimmed
IsSilent(segment) == trim(segment.code) = EmptyString \/ trim(segment.code) = SILENCE

\* C4: generateCombinedCode is the silence token whenever no active segment
\* has usable code, for any number of active segments (none, one, several)
C4_SilenceWhenNothingUsable ==
    \A t \in QueryTimes :
        (\A i \in DOMAIN getActiveSegments(tracks, t) :
             IsSilent(getActiveSegments(tracks, t)[i]))
        => generateCombinedCode(tracks, t) = SILENCE

\* the (code, id) pairs of the usable fragments of an active list, in order
UsablePairs(activeSegments) ==
    LET pair(segment) == [code |-> segment.code, id |-> segment.id]
        usable(p) == ~IsSilent(p)
    IN  SelectSeq([k \in DOMAIN activeSegments |-> pair(activeSegments[k])], usable)

Wrapped(p) == <<"(">> \o trim(p.code) \o <<").analyze(\"", p.id, "\")">>

RECURSIVE Lines(_)
Lines(pairs) ==
    IF Len(pairs) = 1 THEN Wrapped(pairs[1])
    ELSE Wrapped(pairs[1]) \o <<",\n  ">> \o Lines(Tail(pairs))

\* C5: the program is a function of the ordered (code, id) pairs of the
\* usable fragments alone: one fragment gives it wrapped and without stack,
\* two or more give stack(...) of the wrapped fragments in active-list order
C5_ComposeShape ==
    \A t \in QueryTimes :
        LET pairs == UsablePairs(getActiveSegments(tracks, t))
            program == generateCombinedCode(tracks, t)
        IN  /\ Len(pairs) = 1 => program = Wrapped(pairs[1])
            /\ Len(pairs) >= 2 =>
                   program = <<"stack(\n  ">> \o Lines(pairs) \o <<"\n)">>

\* at one time a single usable fragment among several active segments, at
\* another time two or more usable fragments
C5_Witness ==
    /\ \E t \in QueryTimes :
           /\ Len(getActiveSegments(tracks, t)) >= 2
           /\ Len(UsablePairs(getActiveSegments(tracks, t))) = 1
    /\ \E t \in QueryTimes : Len(UsablePairs(getActiveSegments(tracks, t))) >= 2

---------------------------------------------------------------------------
(* Properties of the playback clock *)

\* C6: a tick with no repeating segment selected publishes the audio clock
\* minus the epoch, the audio clock read at the first tick after the start
\* signal; edits, selection changes and manual-edit transitions during the
\* run do not latch it again
C6_PlayheadFromRunEpoch ==
    (ev.kind = "tick" /\ ~ev.repeatMode) =>
        playheadPosition = audioTime - run.epoch[1]

\* C7: a stop leaves isPlaying false, the playhead 0, the epoch and the
\* last-pushed cache cleared; the first tick after a start latches a new
\* epoch (raw position 0, the playhead when no segment repeats) and the
\* first program rendered after a start is pushed
C7_StopLeavesNoResidue ==
    /\ ev.kind = "stop" =>
           /\ ~isPlaying
           /\ playheadPosition = 0
           /\ startTimeRef = <<>>
           /\ lastActiveCodeRef = EmptyString
    /\ (ev.kind = "tick" /\ ev.firstTick) =>
           /\ startTimeRef = <<audioTime>>
           /\ ev.raw = 0
           /\ ~ev.repeatMode => playheadPosition = 0
    /\ (ev.kind = "tick" /\ ev.firstRender) => ev.pushed

\* C8: while the REPL is stopped no frame is pending, and no frame callback
\* runs: a step that ran one was taken with the REPL started
C8_NoTickAfterStop ==
    /\ ~replStarted => frames = {}
    /\ ev.kind \in {"tick", "returned"} => replStarted

\* a stop that found a tick pending
C8_Witness == ev.kind = "stop" /\ ev.cancelled /\ ~replStarted

\* C9: at most one frame is pending
C9_SingleTickChain == Cardinality(frames) <= 1

\* a start signal while running, after ticks and a manual edit
\* re-subscribed the callback, with the one tick pending
C9_Witness ==
    /\ ev.kind = "start" /\ ev.wasStarted
    /\ isManualEditing
    /\ Cardinality(frames) = 1

\* C10: a tick pushes only a program that differs from the last one pushed
\* in this run, remembers what it pushed, and what it pushes is the
\* composition of the segments active at the playhead it published
C10_PushOnlyOnChange ==
    ev.kind = "tick" =>
        /\ ev.pushed =>
               /\ ev.rendered
               /\ ev.prevPushed # <<ev.program>>
               /\ lastActiveCodeRef = ev.program
               /\ ev.program = generateCombinedCode(tracks, playheadPosition)
        /\ (ev.rendered /\ ev.prevPushed = <<ev.program>>) => ~ev.pushed

\* a tick pushes a second program, different from the one pushed before
C10_Witness ==
    /\ ev.kind = "tick" /\ ev.pushed
    /\ ev.prevPushed # <<>>
    /\ ev.prevPushed # <<ev.program>>

---------------------------------------------------------------------------
(* Properties of the duration watermark *)

\* the smallest multiple of 8 that is >= x
LeastMultipleOf8(x) ==
    CHOOSE m \in {8 * k : k \in 0..12} :
        /\ m >= x
        /\ \A n \in {8 * k : k \in 0..12} : n >= x => m <= n

SegmentEnd(segment) == segment.startTime + segment.duration

\* the watermark a mutation that leaves a segment ending at `end` must
\* leave behind
WatermarkAfter(end, before) == IF end > before THEN LeastMultipleOf8(end) ELSE before

\* C15: a step that adds a segment leaves the duration at the smallest
\* multiple of 8 >= the end of the new segment when that end exceeds the
\* duration before the step, and leaves the duration unchanged otherwise
C15_AddRaisesWatermark ==
    [][ idCount' = idCount + 1 =>
            \A segment \in Range(AllSegments(tracks')) :
                segment.id = generateId(idCount') =>
                    duration' = WatermarkAfter(SegmentEnd(segment), duration) ]_vars

\* the one segment ever added starts at 30 and lasts 3 (values only an add
\* gives), and the duration went from 32 to 40
C15_Witness ==
    /\ idCount = 2
    /\ duration = 40
    /\ \E segment \in Range(AllSegments(tracks)) :
           segment.startTime = 30 /\ segment.duration = 3

\* C16: a step that changes the start or the length of a segment leaves the
\* duration at the smallest multiple of 8 >= the new end of that segment
\* (its new start plus its new length, a field not updated keeping its old
\* value) when that end exceeds the duration before the step, and unchanged
\* otherwise; a step that updates neither leaves the duration unchanged
C16_UpdateRaisesWatermark ==
    [][ (/\ idCount' = idCount
         /\ Len(AllSegments(tracks')) = Len(AllSegments(tracks))) =>
            LET old == AllSegments(tracks)
                new == AllSegments(tracks')
                moved == {k \in DOMAIN new :
                             \/ new[k].startTime # old[k].startTime
                             \/ new[k].duration # old[k].duration}
            IN  /\ moved = {} => duration' = duration
                /\ \A k \in moved :
                       duration' = WatermarkAfter(SegmentEnd(new[k]), duration) ]_vars

\* a segment lasts 10 (a value only an update gives) from 38 to 48, beyond
\* the duration 40 its start alone asks for, and the duration is 48
C16_Witness ==
    /\ duration = 48
    /\ \E segment \in Range(AllSegments(tracks)) :
           segment.startTime = 38 /\ segment.duration = 10

\* C17: every stored segment starts at 0 or later and lasts at least 1
C17_SegmentBounds ==
    \A segment \in Range(AllSegments(tracks)) :
        segment.startTime >= 0 /\ segment.duration >= 1

---------------------------------------------------------------------------
(* Properties of the song collection *)

sessionVars == <<currentSongId, tracks, duration, selectedSegmentId, playheadPosition>>

\* C18: a step that is deleteSong('default') changes neither the collection
\* nor the session; deleteSong of another id removes that id and no other
\* song; when it was the current song the default song becomes current with
\* its stored tracks and duration, no selection and the playhead at 0, and
\* otherwise the session is unchanged
C18_DeleteSong ==
    [][ \A id \in SongIdInputs :
            deleteSong(id) =>
                IF id = DEFAULT THEN UNCHANGED <<songs, sessionVars>>
                ELSE /\ DOMAIN songs' = DOMAIN songs \ {id}
                     /\ \A k \in DOMAIN songs' : songs'[k] = songs[k]
                     /\ IF id = currentSongId
                        THEN /\ currentSongId' = DEFAULT
                             /\ tracks' = songs[DEFAULT].tracks
                             /\ duration' = songs[DEFAULT].duration
                             /\ selectedSegmentId' = Null
                             /\ playheadPosition' = 0
                        ELSE UNCHANGED sessionVars ]_vars

\* the current song, not the default one and with a segment selected, was
\* deleted and the default song's stored tracks are loaded
C18_Witness ==
    /\ ev.kind = "deleteSong" /\ ev.wasCurrent /\ ev.id # DEFAULT
    /\ ev.hadSelection
    /\ currentSongId = DEFAULT
    /\ ev.id \notin DOMAIN songs
    /\ tracks # <<>>

\* C19: the collection holds the default song and the current song
C19_DefaultAndCurrentExist ==
    /\ DEFAULT \in DOMAIN songs
    /\ currentSongId \in DOMAIN songs

\* a song was deleted while another song than the default one is current
C19_Witness ==
    /\ ev.kind = "deleteSong" /\ ev.id # DEFAULT /\ ev.id # "missing"
    /\ currentSongId # DEFAULT
    /\ ev.id \notin DOMAIN songs

\* C20: a step that is switchSong(id) with id in the collection leaves id
\* current, the tracks and duration stored for id loaded, no selection and
\* the playhead at 0; with an id not in the collection it changes neither
\* the collection nor the session
C20_SwitchSong ==
    [][ \A id \in SongIdInputs :
            switchSong(id) =>
                IF id \in DOMAIN songs
                THEN /\ currentSongId' = id
                     /\ tracks' = songs[id].tracks
                     /\ duration' = songs[id].duration
                     /\ selectedSegmentId' = Null
                     /\ playheadPosition' = 0
                ELSE UNCHANGED <<songs, sessionVars>> ]_vars

\* a switch from a song being played, with a segment selected and the
\* playhead moved, to another song that has tracks
C20_Witness ==
    /\ ev.kind = "switchSong" /\ ev.id # ev.from
    /\ ev.hadSelection /\ ev.hadPlayhead
    /\ currentSongId = ev.id
    /\ tracks # <<>>
    /\ selectedSegmentId = Null /\ playheadPosition = 0

---------------------------------------------------------------------------
(* Properties of the edit override (ReplEditor) *)

\* C11: a tick pushes only when the timeline has a segment and no manual
\* edit is in progress; a tick taken while a manual edit is in progress or
\* with no segment publishes the playhead and calls nothing on the sink
C11_PushOnlyWhenAllowed ==
    ev.kind = "tick" =>
        /\ ev.pushed => (hasSegments(tracks) /\ ~isManualEditing)
        /\ (isManualEditing \/ ~hasSegments(tracks)) =>
               /\ ~ev.pushed
               /\ ev.sink = "none"
               /\ ~ev.repeatMode => playheadPosition = ev.raw

\* a tick during a manual edit, at a playhead whose program is not the one
\* pushed last
C11_Witness ==
    /\ ev.kind = "tick"
    /\ isManualEditing
    /\ hasSegments(tracks)
    /\ generateCombinedCode(tracks, playheadPosition) # lastActiveCodeRef
    /\ playheadPosition > 0

\* the tracks with the code of segment `id` replaced and nothing else
WithCode(trks, id, code) ==
    [i \in DOMAIN trks |->
        [trks[i] EXCEPT !.segments =
            [j \in DOMAIN @ |-> IF @[j].id = id THEN [@[j] EXCEPT !.code = code]
                                ELSE @[j]]]]

\* C12: a change event received while a segment is selected, with code
\* other than the last known editor code, starts the suppression, writes the
\* code into the selected segment and into no other, starts the quiet timer
\* and leaves the new code as the last known editor code
C12_ChangeEventWritesBack ==
    (ev.kind = "change" /\ ev.selected # <<>> /\ ev.code # ev.lastKnown) =>
        /\ isManualEditing
        /\ tracks = WithCode(ev.before, ev.selected[1].id, ev.code)
        /\ ev.timerStarted
        /\ lastEditorCodeRef = ev.code

\* C13: a suppression in force has its quiet timer pending, the one thing
\* that ends it when no further change event comes
C13_SuppressionEnds == isManualEditing => manualEditTimeoutRef

\* C14: a tick at raw position r publishes s + ((r - s) mod d), the modulus
\* taken in [0, d), when the selected segment repeats with start s and
\* duration d, and r otherwise; s = 10, d = 5, r = 23 gives 13
C14_RepeatMapping ==
    /\ ev.kind = "tick" =>
           LET sel == getSelectedSegment(tracks, selectedSegmentId)
           IN  playheadPosition =
                   IF sel # <<>> /\ sel[1].repeat
                   THEN sel[1].startTime
                        + ((ev.raw - sel[1].startTime) % sel[1].duration)
                   ELSE ev.raw
    /\ timelinePositionOf(23, <<[startTime |-> 10, duration |-> 5, repeat |-> TRUE]>>) = 13

\* a tick at a raw position before the start of the repeating selected
\* segment: the remainder is negative and is wrapped
C14_Witness ==
    /\ ev.kind = "tick" /\ ev.repeatMode
    /\ ev.raw < getSelectedSegment(tracks, selectedSegmentId)[1].startTime

---------------------------------------------------------------------------
(* Properties of the tick loop and of the arbiter's handler chain *)

\* C24: while the REPL is started, a tick that ran, whatever it met, left
\* the next tick scheduled
C24_TickSchedulesNext ==
    (ev.kind \in {"tick", "returned"} /\ replStarted)
        => \E f \in frames : f.id = animationFrameRef

\* a change event that the arbiter is to take for a manual edit: a segment
\* is selected and the code differs from lastKnownEditorCode
IsManualEdit(code) == selectedSegmentId # Null /\ code # lastEditorCodeRef

\* C26: the change event that echoes the clock's push while a segment is
\* selected neither starts the suppression nor changes any segment
C26_EchoIsNotAnEdit ==
    [][ (PushEcho /\ selectedSegmentId # Null)
            => /\ isManualEditing' = isManualEditing
               /\ AllSegments(tracks') = AllSegments(tracks) ]_vars

\* C29: the suppression starts only in a change event received while a
\* segment is selected and carrying code other than lastKnownEditorCode;
\* any other change event and a selection leave the suppression and every
\* segment as they are
C29_SuppressionOnlyByEdit ==
    [][ LET change == ev'.kind = "change"
            selection == ev'.kind = "edit" /\ selectedSegmentId' # selectedSegmentId
        IN  /\ (isManualEditing' /\ ~isManualEditing)
                    => (change /\ IsManualEdit(ev'.code))
            /\ ((change /\ ~IsManualEdit(ev'.code)) \/ selection)
                    => /\ isManualEditing' = isManualEditing
                       /\ AllSegments(tracks') = AllSegments(tracks) ]_vars

\* C30: a change event taken for a manual edit leaves the quiet timer it
\* started pending
C30_EditRestartsTimer ==
    [][ (ev'.kind = "change" /\ ev'.manual /\ ev' # ev) => manualEditTimeoutRef' ]_vars

---------------------------------------------------------------------------
(* Properties of the selection *)

\* C22: the selection is none or the id of a segment of the current
\* tracks; after a removal from the panel it is none when the removed
\* segment, or a segment of the removed track, was selected, and what it
\* was otherwise
C22_NoDanglingSelection ==
    /\ selectedSegmentId = Null \/ selectedSegmentId \in SegmentIds
    /\ ev.kind = "remove" =>
           selectedSegmentId = IF ev.was \in ev.removed THEN Null ELSE ev.was

\* a track was removed that held the selected segment beside another
C22_Witness ==
    /\ ev.kind = "remove"
    /\ ev.was # Null
    /\ ev.was \in ev.removed
    /\ Cardinality(ev.removed) >= 2
    /\ selectedSegmentId = Null
    /\ tracks # <<>>

---------------------------------------------------------------------------
(* Properties of the calls *)

FieldOr(data, key, dflt) == IF key \in DOMAIN data THEN data[key] ELSE dflt

\* C21: addSegment(trackId, data) on an existing track appends one segment
\* with a new id at the end of that track's segments, with startTime 0,
\* duration 8 and name 'Untitled' for the fields data leaves out, and leaves
\* the other tracks, the existing segments and the selection as they were;
\* with a trackId that names no track it changes neither the tracks nor the
\* duration nor the selection
C21_AddSegmentContract ==
    [][\A id \in TrackIdInputs, d \in CallInputs :
          addSegment(id, d) =>
              IF id \in TrackIds
              THEN /\ Len(tracks') = Len(tracks)
                   /\ selectedSegmentId' = selectedSegmentId
                   /\ \A i \in DOMAIN tracks :
                          IF tracks[i].id = id
                          THEN LET n == Len(tracks[i].segments)
                                   added == tracks'[i].segments[n + 1]
                               IN  /\ Len(tracks'[i].segments) = n + 1
                                   /\ SubSeq(tracks'[i].segments, 1, n) = tracks[i].segments
                                   /\ [tracks'[i] EXCEPT !.segments = tracks[i].segments]
                                          = tracks[i]
                                   /\ added.id \notin SegmentIds
                                   /\ added.startTime = FieldOr(d, "startTime", 0)
                                   /\ added.duration = FieldOr(d, "duration", 8)
                                   /\ added.name = FieldOr(d, "name", "Untitled")
                          ELSE tracks'[i] = tracks[i]
              ELSE /\ tracks' = tracks
                   /\ duration' = duration
                   /\ selectedSegmentId' = selectedSegmentId]_vars

\* C27: the duration is at least the end of every segment of the current
\* song, also after a handler that calls addSegment or updateSegment twice
C27_WatermarkCovers ==
    \A s \in Range(AllSegments(tracks)) : s.startTime + s.duration <= duration

---------------------------------------------------------------------------
(* Properties of the persistence *)

\* C23: while the store takes writes the session stays mounted, and in a
\* mounted session, once an operation and its effects are done,
\* songs[currentSongId] holds the session's tracks and duration, and the
\* store holds the serialized collection under the songs key and the
\* current id under the current-song key
C23_PersistenceSync ==
    /\ localStorage.writable => mounted
    /\ mounted =>
        /\ currentSongId \in DOMAIN songs
        /\ songs[currentSongId].tracks = tracks
        /\ songs[currentSongId].duration = duration
        /\ localStorage.SONGS_LIST = <<JSONstringify(songs)>>
        /\ localStorage.CURRENT_SONG = <<currentSongId>>

\* a second song is current, it has a segment, and the store holds the
\* collection of both songs and the second song's id
C23_Witness ==
    /\ mounted
    /\ currentSongId # DEFAULT
    /\ AllSegments(tracks) # <<>>
    /\ songs[DEFAULT].tracks # <<>>
    /\ localStorage.SONGS_LIST = <<JSONstringify(songs)>>
    /\ localStorage.CURRENT_SONG = <<currentSongId>>

SongContent(song) == [tracks |-> song.tracks, duration |-> song.duration]

\* C28: a step of a mounted session leaves every song that is not current
\* after it with the tracks and the duration it had, or, when the step left
\* that song, with the tracks and the duration the session had; and a step
\* that makes a stored song current loads the tracks and the duration stored
\* for it
C28_SongIsolation ==
    [][mounted' =>
          /\ \A id \in DOMAIN songs' \ {currentSongId'} :
                 IF id = currentSongId
                 THEN SongContent(songs'[id]) = [tracks |-> tracks, duration |-> duration]
                 ELSE id \in DOMAIN songs =>
                          SongContent(songs'[id]) = SongContent(songs[id])
          /\ (currentSongId' # currentSongId /\ currentSongId' \in DOMAIN songs) =>
                 /\ tracks' = songs[currentSongId'].tracks
                 /\ duration' = songs[currentSongId'].duration]_vars

\* back on the default song from a second song, with the segment added to
\* the default song before it was left, the second song holding other tracks
C28_Witness ==
    /\ mounted
    /\ ev.kind = "switchSong"
    /\ ev.from # DEFAULT
    /\ ev.from \in DOMAIN songs
    /\ currentSongId = DEFAULT
    /\ idCount >= 3
    /\ AllSegments(tracks) # <<>>
    /\ songs[ev.from].tracks # tracks

\* C25: no stored data and no failing write takes the session down
C25_PersistenceFailuresSwallowed == mounted

---------------------------------------------------------------------------
(* Properties of the resolver: mute, solo and order *)

\* C31: a track that is muted and solo contributes nothing and still
\* silences every track that is not solo; when every track is muted, or
\* every solo track is muted, getActiveSegments is empty at every time
C31_MuteBeforeSolo ==
    \A t \in QueryTimes :
        LET active == getActiveSegments(tracks, t)
        IN  /\ \A i \in DOMAIN tracks :
                   (tracks[i].muted /\ tracks[i].solo) =>
                       \A k \in DOMAIN active :
                           /\ active[k].trackId # tracks[i].id
                           /\ TrackOf(tracks, active[k].trackId).solo
            /\ (\A i \in DOMAIN tracks : tracks[i].muted) => active = <<>>
            /\ (hasSoloTrack /\ \A i \in DOMAIN tracks : tracks[i].solo => tracks[i].muted)
                   => active = <<>>

\* every solo track is muted, an unmuted track that is not solo has a
\* segment at t, and nothing is active at t
C31_Witness ==
    \E t \in QueryTimes :
        /\ \E i \in DOMAIN tracks :
               /\ tracks[i].muted /\ tracks[i].solo
               /\ \E j \in DOMAIN tracks[i].segments : Contains(tracks[i].segments[j], t)
        /\ \A i \in DOMAIN tracks : tracks[i].solo => tracks[i].muted
        /\ \E i \in DOMAIN tracks :
               /\ ~tracks[i].muted /\ ~tracks[i].solo
               /\ \E j \in DOMAIN tracks[i].segments : Contains(tracks[i].segments[j], t)
        /\ getActiveSegments(tracks, t) = <<>>

\* the place of a segment in the stored order: track order, then the order
\* of the track's segments
PlaceOf(segmentId) ==
    CHOOSE n \in DOMAIN AllSegments(tracks) : AllSegments(tracks)[n].id = segmentId

\* C32: getActiveSegments(t) holds every segment of a surviving track that
\* contains t, once, in track order and within a track in stored order, each
\* being the stored segment with the id and the colour of its track added
C32_ActiveOrderAndOverlap ==
    \A t \in QueryTimes :
        LET active == getActiveSegments(tracks, t)
        IN  /\ \A i \in DOMAIN tracks : \A j \in DOMAIN tracks[i].segments :
                   LET segment == tracks[i].segments[j]
                       at == {k \in DOMAIN active : active[k].id = segment.id}
                   IN  IF Survives(tracks[i]) /\ Contains(segment, t)
                       THEN /\ Cardinality(at) = 1
                            /\ \A k \in at :
                                   active[k] = Spread(segment,
                                                      [trackId |-> tracks[i].id,
                                                       trackColor |-> tracks[i].color])
                       ELSE at = {}
            /\ \A k \in DOMAIN active : active[k].id \in SegmentIds
            /\ \A k1 \in DOMAIN active : \A k2 \in DOMAIN active :
                   k1 < k2 => PlaceOf(active[k1].id) < PlaceOf(active[k2].id)

\* two overlapping segments of one track are active at the same time, the
\* one stored first beginning later, each with the id and colour of the track
C32_Witness ==
    \E t \in QueryTimes :
        LET active == getActiveSegments(tracks, t)
        IN  /\ Len(active) >= 2
            /\ active[1].trackId = active[2].trackId
            /\ active[1].startTime > active[2].startTime
            /\ active[1].trackId = tracks[1].id
            /\ active[2].trackColor = tracks[1].color

---------------------------------------------------------------------------
(* Properties of the frame of the timeline operations *)

EndOf(segment) == segment.startTime + segment.duration

\* C33: no operation on the tracks lowers the duration, and a step that
\* adds nothing, moves no segment's end later and removes a track or a
\* segment or moves the end of one earlier leaves the duration as it was
C33_DurationNeverShrinks ==
    [][/\ duration' >= duration
       /\ (/\ idCount' = idCount
           /\ \A after \in Range(AllSegments(tracks')) :
                  \A before \in Range(AllSegments(tracks)) :
                      before.id = after.id => EndOf(after) <= EndOf(before)
           /\ \/ Len(tracks') < Len(tracks)
              \/ Len(AllSegments(tracks')) < Len(AllSegments(tracks))
              \/ \E after \in Range(AllSegments(tracks')) :
                     \E before \in Range(AllSegments(tracks)) :
                         before.id = after.id /\ EndOf(after) < EndOf(before))
              => duration' = duration]_vars

---------------------------------------------------------------------------
(* Properties of mutations issued back-to-back *)

\* C34: two updateSegment calls issued before the next render leave the
\* segment with the fields of the first call merged and then the fields of
\* the second, whichever comes first, and every other segment and track as it
\* was; addTrack followed in the same handler by addSegment with the returned
\* id leaves a new last track that holds the one new segment
C34_BackToBackMerges ==
    [][/\ \A i \in DOMAIN tracks : \A j \in DOMAIN tracks[i].segments :
              \A u1 \in MergeUpdates : \A u2 \in MergeUpdates \ {u1} :
                  updateSegmentTwice(tracks[i].id, tracks[i].segments[j].id, u1, u2) =>
                      /\ tracks'[i].segments[j] =
                             Spread(Spread(tracks[i].segments[j], u1), u2)
                      /\ DOMAIN tracks' = DOMAIN tracks
                      /\ \A k \in DOMAIN tracks :
                             /\ DOMAIN tracks'[k].segments = DOMAIN tracks[k].segments
                             /\ [tracks'[k] EXCEPT !.segments = tracks[k].segments] = tracks[k]
                             /\ \A l \in DOMAIN tracks[k].segments :
                                    <<k, l>> # <<i, j>> =>
                                        tracks'[k].segments[l] = tracks[k].segments[l]
       /\ \A d \in AddToTimelineInputs :
              addTrackThenSegment("Track " \o ToString(Len(tracks) + 1), d) =>
                  /\ Len(tracks') = Len(tracks) + 1
                  /\ SubSeq(tracks', 1, Len(tracks)) = tracks
                  /\ tracks'[Len(tracks')].id \notin TrackIds
                  /\ Len(tracks'[Len(tracks')].segments) = 1
                  /\ tracks'[Len(tracks')].segments[1].id \notin SegmentIds
                  /\ tracks'[Len(tracks')].segments[1].code = d.code]_vars

\* a segment that was moved and given typed code stands in the second of
\* two tracks added with their segment
C34_Witness ==
    /\ Len(tracks) = 2
    /\ Len(tracks[2].segments) = 1
    /\ tracks[2].segments[1].startTime = 2
    /\ tracks[2].segments[1].code = <<"b">>
    /\ Len(tracks[1].segments) = 1

---------------------------------------------------------------------------
(* Properties of the panel's song actions *)

\* C35: after the panel's new-song action the new song is the current song,
\* with no tracks, duration 32, no selection and the playhead at 0
C35_NewSongIsCurrent ==
    ev.kind = "handleCreateNewSong" =>
        /\ currentSongId = ev.id
        /\ tracks = <<>>
        /\ duration = 32
        /\ selectedSegmentId = Null
        /\ playheadPosition = 0

---------------------------------------------------------------------------
(* Properties of the last-pushed cache and of repeat mode *)

\* C36: a program whose push threw, in setCode or in evaluate, is not what
\* the last-pushed cache holds after the tick
C36_CacheHoldsAcceptedOnly ==
    (ev.kind = "tick" /\ ev.pushed /\ ev.sink \in {"setCodeThrows", "evaluateThrows"})
        => lastActiveCodeRef # ev.program

\* C37: after a tick, when the selected segment repeats and lasts at least
\* one second, the published playhead lies in [startTime, startTime +
\* duration) of that segment, and the segment is in getActiveSegments at the
\* playhead whenever its track is not muted and not silenced by a solo
C37_RepeatKeepsSegmentActive ==
    ev.kind = "tick" =>
        LET sel == getSelectedSegment(tracks, selectedSegmentId)
        IN  (sel # <<>> /\ sel[1].repeat /\ sel[1].duration >= 1) =>
                /\ sel[1].startTime <= playheadPosition
                /\ playheadPosition < sel[1].startTime + sel[1].duration
                /\ \A i \in DOMAIN tracks :
                       (/\ \E j \in DOMAIN tracks[i].segments :
                               tracks[i].segments[j].id = selectedSegmentId
                        /\ Survives(tracks[i]))
                           => IsActive(sel[1], playheadPosition)

\* a tick at a raw position outside the repeating selected segment
\* published a playhead inside it, where the segment is active
C37_Witness ==
    /\ ev.kind = "tick"
    /\ LET sel == getSelectedSegment(tracks, selectedSegmentId)
       IN  /\ sel # <<>>
           /\ sel[1].repeat
           /\ \/ ev.raw < sel[1].startTime
              \/ ev.raw >= sel[1].startTime + sel[1].duration
           /\ playheadPosition >= sel[1].startTime
           /\ IsActive(sel[1], playheadPosition)

---------------------------------------------------------------------------
(* Properties of the song collection                                       *)

\* C38: while the hook is mounted every entry of the songs collection is
\* stored under its own id and has a tracks list and a duration; renameSong
\* of an id that is not in the collection and the save of the current song
\* add no entry
C38_SongsWellFormed ==
    mounted =>
        \A k \in DOMAIN songs :
            /\ "id" \in DOMAIN songs[k]
            /\ songs[k].id = k
            /\ "tracks" \in DOMAIN songs[k]
            /\ "duration" \in DOMAIN songs[k]

---------------------------------------------------------------------------
(* Properties of the field updates                                         *)

\* the fields of a record other than the named ones are what they were,
\* and the named ones hold the given values
OnlyNamedFields(before, after, updates) ==
    /\ DOMAIN after = DOMAIN before \cup DOMAIN updates
    /\ \A f \in DOMAIN before \ DOMAIN updates : after[f] = before[f]
    /\ \A f \in DOMAIN updates : after[f] = updates[f]

\* C39: a step that is updateTrack(trackId, fields) leaves every other
\* track as it was, in its place, and changes only the named fields of the
\* track with that id; a step that is updateSegment(trackId, segmentId,
\* fields) leaves every other track, every other field of that track and
\* every other segment of it as they were, in their places, and changes
\* only the named fields of that segment; with an id that matches nothing
\* the tracks are unchanged
C39_OnlyNamedFieldsChange ==
    [][/\ \A trackId \in TrackIdInputs : \A updates \in FrameTrackUpdates :
              updateTrack(trackId, updates) =>
                  /\ DOMAIN tracks' = DOMAIN tracks
                  /\ \A i \in DOMAIN tracks :
                         IF tracks[i].id = trackId
                         THEN OnlyNamedFields(tracks[i], tracks'[i], updates)
                         ELSE tracks'[i] = tracks[i]
                  /\ trackId \notin TrackIds => tracks' = tracks
       /\ \A trackId \in TrackIdInputs : \A segmentId \in SegmentIdInputs :
              \A updates \in FrameUpdates :
                  updateSegment(trackId, segmentId, updates) =>
                      /\ DOMAIN tracks' = DOMAIN tracks
                      /\ \A i \in DOMAIN tracks :
                             IF tracks[i].id = trackId
                             THEN /\ OnlyNamedFields(tracks[i], tracks'[i],
                                                     [segments |-> tracks'[i].segments])
                                  /\ DOMAIN tracks'[i].segments = DOMAIN tracks[i].segments
                                  /\ \A j \in DOMAIN tracks[i].segments :
                                         IF tracks[i].segments[j].id = segmentId
                                         THEN OnlyNamedFields(tracks[i].segments[j],
                                                              tracks'[i].segments[j], updates)
                                         ELSE tracks'[i].segments[j] = tracks[i].segments[j]
                             ELSE tracks'[i] = tracks[i]
                      /\ (\/ trackId \notin TrackIds
                          \/ \A i \in DOMAIN tracks : \A j \in DOMAIN tracks[i].segments :
                                 tracks[i].id = trackId => tracks[i].segments[j].id # segmentId)
                             => tracks' = tracks]_vars

\* two tracks, the first muted and renamed and the second neither; the
\* second segment of the first track moved and lengthened beside the first
\* segment, which is as it was stored
C39_Witness ==
    /\ Len(tracks) = 2
    /\ tracks[1].muted /\ tracks[1].name = "drums"
    /\ ~tracks[2].muted /\ tracks[2].name # "drums"
    /\ tracks[2].segments = StoredTwoTracks[2].segments
    /\ tracks[1].segments[2].startTime = 2
    /\ tracks[1].segments[2].duration = 12
    /\ tracks[1].segments[1] = StoredTracks[1].segments[1]

---------------------------------------------------------------------------
(* Properties of the pointer gestures                                      *)

\* C40: after a mousemove of a gesture every update issued names a
\* startTime of at least 0 and a duration of at least 1, and the segment,
\* which started at 0 or later and lasted a second or more, still does; a
\* drag leaves the duration and puts the start at the dragged place or at 0;
\* a left-resize leaves the end where it was, and issues nothing, leaving
\* the segment, exactly when the duration would be below 1; a right-resize
\* leaves the start and puts the duration at the resized one or at 1
C40_GesturesKeepBounds ==
    ev.kind = "mousemove" =>
        LET before == ev.before
            after == SegmentProp(pressed[1].trackId, pressed[1].segmentId)
            ref == dragStartRef
        IN  /\ \A k \in DOMAIN ev.issued :
                   /\ "startTime" \in DOMAIN ev.issued[k] => ev.issued[k].startTime >= 0
                   /\ "duration" \in DOMAIN ev.issued[k] => ev.issued[k].duration >= 1
            /\ (before.startTime >= 0 /\ before.duration >= 1)
                   => (after.startTime >= 0 /\ after.duration >= 1)
            /\ ev.mode = "drag" =>
                   /\ after.duration = before.duration
                   /\ after.startTime = MathMax(0, ref.startTime + ev.deltaTime)
            /\ ev.mode = "left" =>
                   /\ after.startTime + after.duration = before.startTime + before.duration
                   /\ after.startTime + after.duration = ref.startTime + ref.duration
                   /\ (ev.issued = <<>>) =
                          (ref.duration - (MathMax(0, ref.startTime + ev.deltaTime)
                                             - ref.startTime) < 1)
                   /\ ev.issued = <<>> => after = before
                   /\ ev.issued # <<>> =>
                          after.startTime = MathMax(0, ref.startTime + ev.deltaTime)
            /\ ev.mode = "right" =>
                   /\ after.startTime = before.startTime
                   /\ after.duration = MathMax(1, ref.duration + ev.deltaTime)

\* a drag to the left of the origin left the segment at 0 with the duration
\* it had
C40_Witness ==
    /\ ev.kind = "mousemove"
    /\ ev.mode = "drag"
    /\ dragStartRef.startTime + ev.deltaTime < 0
    /\ ev.before.startTime > 0
    /\ SegmentProp(pressed[1].trackId, pressed[1].segmentId).startTime = 0
    /\ SegmentProp(pressed[1].trackId, pressed[1].segmentId).duration = ev.before.duration

=============================================================================
